---- MODULE Spec2Model ----
\* Verification model of the viwobot voice back end (src/backend):
\*   voice_pipeline.py  wake-word loop, endpointing recorder, follow-up loop
\*   tts_client.py      speak() and the playback lock
\* Times are carried in tenths of a second so that 1.5 s stays an integer.
EXTENDS Integers, Sequences, FiniteSets, TLC

\* ------------------------------------------------------------------ bounds
\* Samples per frame (porcupine.frame_length, fixed by the detector library).
\* 16000 samples at 16 kHz is one frame per second, which keeps a 15 s pass at
\* 15 frames.
FrameLength == 16000
\* Pipeline threads that start_pipeline can have spawned.
MaxThreads == 2
\* speak() calls whose playback has not finished yet.
MaxPlaybacks == 2
\* Websockets that connect to /ws/status.
MaxConns == 2
\* Events given to broadcast_sync.
MaxEvents == 2

\* Reminders that add() creates.
MaxReminders == 2
\* Distinct fire times a reminder can be given.
MaxFireAt == 2
\* Calls of chat and chat_raw.
MaxChats == 3
\* Tutor sessions that start() creates.
MaxSessions == 2
\* Concepts that extract_concepts can return.
MaxConcepts == 2
\* Answers that are counted in one session: q_index, the score and the log stop
\* counting there.
MaxQuestions == 1
\* Threads that are inside tutor_engine.answer at the same time.
MaxAnswerers == 2
\* Runs of _save_session that are counted for one session.
MaxSaves == 2
\* Frames the audio device captures.
MaxCaptured == 4
\* Frames one recording pass reads (max_total_chunks of the call).
MaxPassFrames == 2
\* /ws/mic connections.
MaxMics == 2
\* Binary messages one /ws/mic client sends.
MaxChunks == 2

\* ------------------------------------------------------- program constants
sample_rate == 16000
rms_threshold == 400
FOLLOW_UP_SECONDS == 5
FOLLOW_UP_MAX_ROUNDS == 5
\* 15.0 s, the max_duration both call sites pass; 4.0 s, the wake-triggered
\* silence_timeout; 1.5 s, the trailing silence of line 335.
MaxDurationTenths == 150
WakeSilenceTenths == 40
PostSpeechTenths == 15

None == 0
\* round of a thread that is not inside _conversational_follow_up
WakeRound == -1
\* owner of a playback that another caller of speak() started (/chat, a
\* reminder firing, the tutor, /ws/mic routing)
Other == 0

Threads == 1..MaxThreads
Playbacks == 1..MaxPlaybacks
Conns == 1..MaxConns
\* Events are numbered in the order broadcast_sync is called with them.
Events == 1..MaxEvents
\* Reminder ids, in the order uuid4 produced them.
Rids == 1..MaxReminders
\* Calls of the chat client, in the order they are made.
Chats == 1..MaxChats
\* Tutor sessions, in the order start() creates them.
Sessions == 1..MaxSessions
\* Threads of the tutor: worker s <= MaxSessions is the _start_session thread
\* of session s, the others are the executor threads that run answer().
Starters == 1..MaxSessions
Answerers == (MaxSessions + 1)..(MaxSessions + MaxAnswerers)
Workers == Starters \cup Answerers
\* /ws/mic connections, each with its handle_mic_websocket coroutine.
Mics == 1..MaxMics
\* The {"state": "idle"} that ws_status sends a new client itself (main.py 375).
Hello == 0

\* ---------------------------------------------------------------- state
VARIABLES
    running,    \* _running
    app,        \* main.py lifespan: "init", "up" (started), "down" (shut down)
    pc,         \* per pipeline thread: where _wake_word_loop is
    trigger_recording,  \* per thread: local of _wake_word_loop, line 434
    round,      \* per thread: round_num of the follow-up loop, or WakeRound
    rec,        \* per thread: locals of its _record_audio call, or NoRecord
    phase,      \* per thread: "state" of the last event it gave broadcast_sync
    say,        \* per thread: the speak call _smart_dispatch is about to make
    units,      \* per playback: the _run of one speak() call
    tts_lock,   \* _tts_lock: None, or the playback holding it
    handle,     \* per thread: the Thread object its latest speak() call started
    action,     \* per thread: parsed["action"] of its latest _smart_dispatch
                \* call in the current turn ("" when there was none)
    r_call,     \* recorder harness: <<max_duration, silence_timeout>> of the call
    r_tape,     \* recorder harness: RMS of the frames the device has produced
    r_pass,     \* recorder harness: 1 or 2, the pass over r_tape
    r_rec,      \* recorder harness: locals of the running _record_audio call
    r_first,    \* recorder harness: what pass 1 returned (None before)
    ws_loop,    \* ConnectionManager._loop is set
    active,     \* ConnectionManager.active_connections
    conn,       \* per websocket: "new", "open", "slow", "closed", "gone"
    wire,       \* per websocket: events written to it and not yet delivered
    inbox,      \* per websocket: what its client has received, in order
    task,       \* per published event: its broadcast() coroutine
    ready,      \* the event loop's queue of broadcast tasks ready to run
    waiters,    \* per websocket: the tasks suspended in a send to it, in order
    attached,   \* per websocket: how many events were published when it attached
    published,  \* how many events have been given to broadcast_sync
    calls,      \* per playback: the speak() call that started it
    reminders,  \* ReminderEngine._reminders: per id its fire_at, 0 when absent
    jobs,       \* ids of the jobs in the scheduler's store
    stored,     \* reminders.json: what the last successful _save wrote
    minted,     \* how many ids add() has created
    firing,     \* ids whose _fire call is submitted or running
    fired,      \* per id: how many times _fire has announced it
    del,        \* the latest ReminderEngine.delete call
    history,    \* OpenClawClient._history: entries <<role, call>>
    chat,       \* per call of chat or chat_raw: which one, and where it is
    sessions,   \* per tutor session: the fields of its TutorSession
    session,    \* TutorEngine._session: the current session, 0 for None
    made,       \* how many sessions start() has created
    wk,         \* per tutor thread: where it is, and its locals
    d_pc,       \* device harness: where the thread that owns the stream is
    d_buf,      \* device harness: the frames buffered in the stream, oldest
                \* first, each the number of its capture
    d_clock,    \* device harness: how many frames the device has captured
    d_mark,     \* device harness: d_clock when the running pass was called
    d_post,     \* device harness: d_clock when line 526 was reached
    available,  \* device harness: the local of that name (344, 527)
    d_frames,   \* device harness: `frames` of the running _record_audio call
    d_flushed,  \* device harness: "ok" or "raised", how the latest flush went
    mic         \* per /ws/mic connection: its handle_mic_websocket call

recVars == <<r_call, r_tape, r_pass, r_rec, r_first>>
pipeVars == <<app, pc, trigger_recording, round, rec, phase, say, units, tts_lock,
              handle, action>>
wsVars == <<ws_loop, active, conn, wire, inbox, task, ready, waiters, attached, published>>
remVars == <<reminders, jobs, stored, minted, firing, fired, del>>
chatVars == <<history, chat>>
tutVars == <<sessions, session, made, wk>>
svcVars == <<calls, remVars, chatVars, tutVars>>
devVars == <<d_pc, d_buf, d_clock, d_mark, d_post, available, d_frames, d_flushed>>
micVars == <<mic>>
auxVars == <<devVars, micVars>>
vars == <<running, app, pc, trigger_recording, round, rec, phase, say, units,
          tts_lock, handle, action, r_call, r_tape, r_pass, r_rec, r_first,
          ws_loop, active, conn, wire, inbox, task, ready, waiters, attached,
          published, calls, reminders, jobs, stored, minted, firing, fired, del,
          history, chat, sessions, session, made, wk, d_pc, d_buf, d_clock,
          d_mark, d_post, available, d_frames, d_flushed, mic>>

\* ------------------------------------------------- _record_audio (pure part)
\* int(chunks_per_second * seconds) with chunks_per_second = sample_rate / chunk_size
ChunksIn(chunk_size, tenths) == (sample_rate * tenths) \div (chunk_size * 10)

\* The RMS levels a frame can have: the threshold itself and just above it.
Levels == {rms_threshold, rms_threshold + 1}

IsSpeech_Flipped(rms) == rms < rms_threshold + 1
IsSpeech(rms) == rms > rms_threshold

\* Locals after lines 326-349: nothing recorded yet. why names the exit taken:
\* "" while looping, "stop" (line 353), "pre" (371), "post" (374), "max" (range
\* exhausted).
RecordInit(chunk_size, max_duration, silence_timeout) ==
    LET total == ChunksIn(chunk_size, max_duration)
    IN  [max_silent_chunks_before |-> ChunksIn(chunk_size, silence_timeout),
         max_silent_chunks_after  |-> ChunksIn(chunk_size, PostSpeechTenths),
         max_total_chunks         |-> total,
         has_spoken    |-> FALSE,
         silent_chunks |-> 0,
         frames        |-> 0,
         why           |-> IF total = 0 THEN "max" ELSE ""]

\* The stopping conditions of lines 369-374, then the end of range().
RecordExit_AtLeast(r) ==
    IF ~r.has_spoken /\ r.silent_chunks >= r.max_silent_chunks_before THEN "pre"
    ELSE IF r.has_spoken /\ r.silent_chunks >= r.max_silent_chunks_after THEN "post"
    ELSE IF r.frames >= r.max_total_chunks THEN "max"
    ELSE ""
RecordExit(r) ==
    IF ~r.has_spoken /\ r.silent_chunks > r.max_silent_chunks_before THEN "pre"
    ELSE IF r.has_spoken /\ r.silent_chunks > r.max_silent_chunks_after THEN "post"
    ELSE IF r.frames >= r.max_total_chunks THEN "max"
    ELSE ""

\* One iteration of the loop body, lines 355-374, on a frame of the given RMS.
RecordIter_CountsAll(r, rms) ==
    LET a == [r EXCEPT !.frames = @ + 1,
                       !.has_spoken = IF IsSpeech(rms) THEN TRUE ELSE @,
                       !.silent_chunks = @ + 1]
    IN  [a EXCEPT !.why = RecordExit(a)]
RecordIter(r, rms) ==
    LET a == [r EXCEPT !.frames = @ + 1,
                       !.has_spoken = IF IsSpeech(rms) THEN TRUE ELSE @,
                       !.silent_chunks = IF IsSpeech(rms) THEN 0 ELSE @ + 1]
    IN  [a EXCEPT !.why = RecordExit(a)]

\* Line 352-353: the stop flag ends the pass before the next read.
RecordBreak(r) == [r EXCEPT !.why = "stop"]

\* The locals of a thread that is not inside _record_audio.
NoRecord ==
    [max_silent_chunks_before |-> 0, max_silent_chunks_after |-> 0,
     max_total_chunks |-> 0, has_spoken |-> FALSE, silent_chunks |-> 0,
     frames |-> 0, why |-> "none"]

\* ------------------------------------------------------------ tts_client
FreeUnit == [st |-> "free", owner |-> Other, kind |-> ""]
FreePlaybacks == {u \in Playbacks : units[u].st = "free"}
NewPlayback == CHOOSE u \in FreePlaybacks : \A v \in FreePlaybacks : u <= v

\* What speak(text, blocking=False) gives back to its caller: the function ends
\* after t.start() (line 165) without a return statement.
SpeakReturn(u) == None

\* speak(text, blocking=False), lines 139-165, called for owner o: an empty text
\* returns at once; otherwise a daemon thread is started that will take
\* _tts_lock and play. started is that thread (None for an empty text).
SpeakStarts(o, kind, empty, started) ==
    IF empty
    THEN started = None /\ UNCHANGED units
    ELSE /\ FreePlaybacks # {}
         /\ started = NewPlayback
         /\ units' = [units EXCEPT ![started] =
                        [st |-> "waiting", owner |-> o, kind |-> kind]]

\* _run, line 158: `with _tts_lock` is entered once the lock is free.
LockFree_Ignored == TRUE
LockFree == tts_lock = None

TtsAcquire(u) ==
    /\ units[u].st = "waiting"
    /\ LockFree
    /\ units' = [units EXCEPT ![u].st = "playing"]
    /\ tts_lock' = u
    /\ UNCHANGED <<running, app, pc, trigger_recording, round, rec, phase, say, handle>>
    /\ UNCHANGED <<action, recVars, auxVars, wsVars, svcVars>>

\* _fn(text) returns (played, or failed and logged) and the with-block releases
\* the lock; the thread ends.
TtsFinish(u) ==
    /\ units[u].st = "playing"
    /\ units' = [units EXCEPT ![u] = FreeUnit]
    /\ tts_lock' = None
    /\ handle' = [t \in Threads |-> IF handle[t] = u THEN None ELSE handle[t]]
    /\ UNCHANGED <<running, app, pc, trigger_recording, round, rec, phase, say>>
    /\ UNCHANGED <<action, recVars, auxVars, wsVars, svcVars>>

\* Another caller of speak(): main.py /chat (line 178), ReminderEngine._fire
\* (reminder_engine.py 159), the tutor (tutor_engine.py 209, 269, 287, 384),
\* /ws/mic routing.
ExtSpeak ==
    /\ \E started \in Playbacks : SpeakStarts(Other, "ext", FALSE, started)
    /\ UNCHANGED <<running, app, pc, trigger_recording, round, rec, phase, say,
                   tts_lock, handle>>
    /\ UNCHANGED <<action, recVars, auxVars, wsVars, svcVars>>

\* ------------------------------------------------- tts_client: inside _run
\* The speak() call behind a playback:
\*   blocking  the caller runs _run itself (162) or a thread does (164-165)
\*   fn        _fn: "elevenlabs" with an API key, else "pyttsx3" (154-155)
\*   stage     where _fn is: "" not entered, "fallback" in the _speak_pyttsx3
\*             call of line 106, "done" returned or raised, "released" the
\*             with-block has been left
\*   audio     the engine that played the text, or "none"
\*   out       "" the call has not come back to its caller, "returned",
\*             "raised"
NoSpeak == [blocking |-> FALSE, fn |-> "", stage |-> "", audio |-> "none", out |-> ""]

InitTts == calls = [u \in Playbacks |-> NoSpeak]

\* speak(text, blocking), lines 148-165, with a text that is not blank: _run
\* is run by the caller or handed to a thread, and in the second case the call
\* returns at once.
SpeakCall ==
    /\ \E blocking \in BOOLEAN, has_elevenlabs \in BOOLEAN, started \in Playbacks :
         /\ SpeakStarts(Other, "ext", FALSE, started)
         /\ calls' = [calls EXCEPT ![started] =
                        [blocking |-> blocking,
                         fn |-> IF has_elevenlabs THEN "elevenlabs" ELSE "pyttsx3",
                         stage |-> "", audio |-> "none",
                         out |-> IF blocking THEN "" ELSE "returned"]]
    /\ UNCHANGED <<running, app, pc, trigger_recording, round, rec, phase, say,
                   tts_lock, handle>>
    /\ UNCHANGED <<action, recVars, auxVars, wsVars>>
    /\ UNCHANGED <<remVars, chatVars, tutVars>>

\* What a failing _speak_pyttsx3 does to the call: the except clause of line
\* 133 logs and the function returns.
Pyttsx3Failed_Raises(c) == [c EXCEPT !.stage = "done", !.out = "raised"]
Pyttsx3Failed(c) == [c EXCEPT !.stage = "done"]

\* _fn(text) is entered under the lock (158-159). _speak_elevenlabs, lines
\* 64-106: played, or any exception leads to _speak_pyttsx3(text).
\* _speak_pyttsx3 as _fn, lines 116-134: played, or failed and logged.
SynthPrimary(u) ==
    /\ units[u].st = "playing"
    /\ calls[u].stage = ""
    /\ \E ok \in BOOLEAN :
         calls' = [calls EXCEPT ![u] =
                     IF ok THEN [@ EXCEPT !.stage = "done", !.audio = calls[u].fn]
                     ELSE IF @.fn = "elevenlabs" THEN [@ EXCEPT !.stage = "fallback"]
                     ELSE Pyttsx3Failed(@)]
    /\ UNCHANGED <<running, pipeVars, recVars, auxVars, wsVars>>
    /\ UNCHANGED <<remVars, chatVars, tutVars>>

\* The _speak_pyttsx3 call of line 106.
SynthFallback(u) ==
    /\ units[u].st = "playing"
    /\ calls[u].stage = "fallback"
    /\ \E ok \in BOOLEAN :
         calls' = [calls EXCEPT ![u] =
                     IF ok THEN [@ EXCEPT !.stage = "done", !.audio = "pyttsx3"]
                     ELSE Pyttsx3Failed(@)]
    /\ UNCHANGED <<running, pipeVars, recVars, auxVars, wsVars>>
    /\ UNCHANGED <<remVars, chatVars, tutVars>>

\* The with-block of line 158 is left, by return or by exception: the lock is
\* released, and a blocking call comes back to its caller.
TtsRelease(u) ==
    /\ units[u].st = "playing"
    /\ calls[u].stage = "done"
    /\ units' = [units EXCEPT ![u] = FreeUnit]
    /\ tts_lock' = None
    /\ calls' = [calls EXCEPT ![u].stage = "released",
                              ![u].out = IF @ = "" THEN "returned" ELSE @]
    /\ UNCHANGED <<running, app, pc, trigger_recording, round, rec, phase, say, handle>>
    /\ UNCHANGED <<action, recVars, auxVars, wsVars>>
    /\ UNCHANGED <<remVars, chatVars, tutVars>>

\* ------------------------------------------------------------ ws_manager
\* A broadcast() coroutine that has not been scheduled.
NoTask == [st |-> "none", used |-> 0, seen |-> {}, disconnected |-> {},
           at |-> None, wake |-> ""]

Lowest(S) == CHOOSE c \in S : \A d \in S : c <= d

\* `for connection in self.active_connections`, line 56: the members the set
\* iterator has not produced yet.
Unvisited(tk) == active \ tk.seen

\* The set iterator raises RuntimeError ("Set changed size during iteration")
\* when the set's size is not the one it had when the iteration began.
SizeChanged(tk) == Cardinality(active) # tk.used

\* broadcast(), lines 56-65, for event e from the for statement's next step to
\* the coroutine's next suspension or its end. A send to an open websocket
\* completes; one to a websocket whose peer does not read is written and the
\* coroutine is suspended in it; one to a closed websocket raises, which line
\* 59 catches. The RuntimeError of the iterator is not caught: the coroutine
\* ends without pruning.
RECURSIVE Iterate(_, _, _, _, _)
Iterate(e, tk, ib, wr, wt) ==
    IF SizeChanged(tk)
    THEN [task |-> [tk EXCEPT !.st = "crashed"], inbox |-> ib, wire |-> wr,
          waiters |-> wt, active |-> active]
    ELSE IF Unvisited(tk) = {}
    THEN [task |-> [tk EXCEPT !.st = "done"], inbox |-> ib, wire |-> wr,
          waiters |-> wt, active |-> active \ tk.disconnected]
    ELSE LET c == Lowest(Unvisited(tk))
             tk1 == [tk EXCEPT !.seen = @ \cup {c}]
         IN  CASE conn[c] = "open" ->
                    Iterate(e, tk1, [ib EXCEPT ![c] = Append(@, e)], wr, wt)
               [] conn[c] = "slow" ->
                    [task |-> [tk1 EXCEPT !.st = "suspended", !.at = c],
                     inbox |-> ib,
                     wire |-> [wr EXCEPT ![c] = Append(@, e)],
                     waiters |-> [wt EXCEPT ![c] = Append(@, e)],
                     active |-> active]
               [] OTHER ->
                    Iterate(e, [tk1 EXCEPT !.disconnected = @ \cup {c}], ib, wr, wt)

\* The coroutine as the event loop picks it up: a new one serialises the
\* payload and starts the iteration (lines 53-56); one woken in line 58 gets the
\* send's result, an exception putting the websocket in `disconnected`.
Resume_Restart(tk) ==
    IF tk.st = "queued"
    THEN [tk EXCEPT !.st = "running", !.used = Cardinality(active)]
    ELSE [tk EXCEPT !.st = "running", !.at = None, !.wake = "", !.seen = {},
                    !.disconnected = IF tk.wake = "raise" THEN @ \cup {tk.at} ELSE @]
Resume(tk) ==
    IF tk.st = "queued"
    THEN [tk EXCEPT !.st = "running", !.used = Cardinality(active)]
    ELSE [tk EXCEPT !.st = "running", !.at = None, !.wake = "",
                    !.disconnected = IF tk.wake = "raise" THEN @ \cup {tk.at} ELSE @]

\* set_loop, lines 33-35 (main.py lifespan, lines 82-83)
SetLoop ==
    /\ ~ws_loop
    /\ ws_loop' = TRUE
    /\ UNCHANGED <<active, conn, wire, inbox, task, ready, waiters, attached, published>>
    /\ UNCHANGED <<running, pipeVars, recVars, auxVars, svcVars>>

\* broadcast_sync, lines 67-76, called by a background thread: without a loop
\* the event is dropped; otherwise the coroutine is handed to the loop and the
\* call returns.
BroadcastSync ==
    /\ published < MaxEvents
    /\ LET e == published + 1
       IN  /\ published' = e
           /\ IF ~ws_loop
              THEN /\ task' = [task EXCEPT ![e].st = "dropped"]
                   /\ UNCHANGED ready
              ELSE /\ task' = [task EXCEPT ![e].st = "queued"]
                   /\ ready' = Append(ready, e)
    /\ UNCHANGED <<ws_loop, active, conn, wire, inbox, waiters, attached>>
    /\ UNCHANGED <<running, pipeVars, recVars, auxVars, svcVars>>

\* The event loop runs the broadcast task at the head of its queue up to that
\* task's next suspension.
LoopRun ==
    /\ ready # <<>>
    /\ LET e == Head(ready)
           r == Iterate(e, Resume(task[e]), inbox, wire, waiters)
       IN  /\ task' = [task EXCEPT ![e] = r.task]
           /\ inbox' = r.inbox
           /\ wire' = r.wire
           /\ waiters' = r.waiters
           /\ active' = r.active
    /\ ready' = Tail(ready)
    /\ UNCHANGED <<ws_loop, conn, attached, published>>
    /\ UNCHANGED <<running, pipeVars, recVars, auxVars, svcVars>>

\* ws_status, main.py lines 373-375, and connect, lines 37-41: the websocket is
\* accepted and added, then the handler sends it the idle state itself.
Connect(c) ==
    /\ ws_loop
    /\ conn[c] = "new"
    /\ conn' = [conn EXCEPT ![c] = "open"]
    /\ active' = active \cup {c}
    /\ inbox' = [inbox EXCEPT ![c] = Append(@, Hello)]
    /\ attached' = [attached EXCEPT ![c] = published]
    /\ UNCHANGED <<ws_loop, wire, task, ready, waiters, published>>
    /\ UNCHANGED <<running, pipeVars, recVars, auxVars, svcVars>>

\* The peer of an open websocket stops reading: sends to it no longer complete.
PeerStalls(c) ==
    /\ conn[c] = "open"
    /\ conn' = [conn EXCEPT ![c] = "slow"]
    /\ UNCHANGED <<ws_loop, active, wire, inbox, task, ready, waiters, attached, published>>
    /\ UNCHANGED <<running, pipeVars, recVars, auxVars, svcVars>>

WakeAll(c, how) ==
    /\ task' = [e \in Events |->
                  IF task[e].st = "suspended" /\ task[e].at = c
                  THEN [task[e] EXCEPT !.st = "woken", !.wake = how]
                  ELSE task[e]]
    /\ ready' = ready \o waiters[c]
    /\ waiters' = [waiters EXCEPT ![c] = <<>>]

\* The peer reads again: what was written arrives in order and the sends
\* waiting on the websocket complete, in the order they were made.
PeerDrains(c) ==
    /\ conn[c] = "slow"
    /\ conn' = [conn EXCEPT ![c] = "open"]
    /\ inbox' = [inbox EXCEPT ![c] = @ \o wire[c]]
    /\ wire' = [wire EXCEPT ![c] = <<>>]
    /\ WakeAll(c, "ok")
    /\ UNCHANGED <<ws_loop, active, attached, published>>
    /\ UNCHANGED <<running, pipeVars, recVars, auxVars, svcVars>>

\* The connection is lost: what was not delivered is gone and the sends
\* waiting on the websocket raise.
PeerCloses(c) ==
    /\ conn[c] \in {"open", "slow"}
    /\ conn' = [conn EXCEPT ![c] = "closed"]
    /\ wire' = [wire EXCEPT ![c] = <<>>]
    /\ WakeAll(c, "raise")
    /\ UNCHANGED <<ws_loop, active, inbox, attached, published>>
    /\ UNCHANGED <<running, pipeVars, recVars, auxVars, svcVars>>

\* ws_status, main.py lines 377-381: receive_text raises WebSocketDisconnect
\* and the handler calls disconnect (lines 43-46).
HandlerDisconnect(c) ==
    /\ conn[c] = "closed"
    /\ conn' = [conn EXCEPT ![c] = "gone"]
    /\ active' = active \ {c}
    /\ UNCHANGED <<ws_loop, wire, inbox, task, ready, waiters, attached, published>>
    /\ UNCHANGED <<running, pipeVars, recVars, auxVars, svcVars>>

InitWs ==
    /\ ws_loop = FALSE
    /\ active = {}
    /\ conn = [c \in Conns |-> "new"]
    /\ wire = [c \in Conns |-> <<>>]
    /\ inbox = [c \in Conns |-> <<>>]
    /\ task = [e \in Events |-> NoTask]
    /\ ready = <<>>
    /\ waiters = [c \in Conns |-> <<>>]
    /\ attached = [c \in Conns |-> 0]
    /\ published = 0

\* -------------------------------------------------------- reminder_engine
\* No reminder: the dict, and the file, without any entry.
NoReminders == [r \in Rids |-> 0]

\* dict.pop(rid, None), line 214 and line 168
Without_Keeps(rs, rid) == rs
Without(rs, rid) == [rs EXCEPT ![rid] = 0]

\* _save, lines 106-114: the file gets the dict, unless the write fails, which
\* is logged.
Save(rs, ok) == IF ok THEN rs ELSE stored

\* list_reminders, line 200: the entries sorted by fire_at (sorted() is stable
\* and the dict keeps insertion order, which is the order of the ids).
Listed == {r \in Rids : reminders[r] # 0}
ComesBefore(a, b) ==
    reminders[a] < reminders[b] \/ (reminders[a] = reminders[b] /\ a < b)
list_reminders ==
    CHOOSE q \in [1..Cardinality(Listed) -> Listed] :
      \A i, j \in 1..Cardinality(Listed) : i < j => ComesBefore(q[i], q[j])

InitRem ==
    /\ reminders = NoReminders
    /\ jobs = {}
    /\ stored = NoReminders
    /\ minted = 0
    /\ firing = {}
    /\ fired = [r \in Rids |-> 0]
    /\ del = [st |-> "idle", rid |-> 1, ret |-> ""]

\* add(message, time_str), lines 184-196, with a time that parses.
Add ==
    /\ minted < MaxReminders
    /\ \E fire_at \in 1..MaxFireAt, ok \in BOOLEAN :
         LET rid == minted + 1
             rs == [reminders EXCEPT ![rid] = fire_at]
         IN  /\ reminders' = rs
             /\ jobs' = jobs \cup {rid}
             /\ stored' = Save(rs, ok)
             /\ minted' = rid
    /\ UNCHANGED <<firing, fired, del>>
    /\ UNCHANGED <<running, pipeVars, recVars, auxVars, wsVars, calls, chatVars, tutVars>>

\* The job that _schedule_job made, lines 143-151, comes due: the scheduler
\* hands the call of _fire to its executor and the job leaves the store (a
\* DateTrigger runs once).
FireDue(rid) ==
    /\ rid \in jobs
    /\ jobs' = jobs \ {rid}
    /\ firing' = firing \cup {rid}
    /\ UNCHANGED <<reminders, stored, minted, fired, del>>
    /\ UNCHANGED <<running, pipeVars, recVars, auxVars, wsVars, calls, chatVars, tutVars>>

\* _fire, lines 153-165, in a thread of the executor: the reminder is spoken
\* and the event is published.
FireAnnounce(rid) ==
    /\ rid \in firing
    /\ fired[rid] = 0
    /\ fired' = [fired EXCEPT ![rid] = @ + 1]
    /\ UNCHANGED <<reminders, jobs, stored, minted, firing, del>>
    /\ UNCHANGED <<running, pipeVars, recVars, auxVars, wsVars, calls, chatVars, tutVars>>

\* _fire, lines 168-169: the entry is removed and the file rewritten.
FireDone(rid) ==
    /\ rid \in firing
    /\ fired[rid] > 0
    /\ \E ok \in BOOLEAN :
         LET rs == Without(reminders, rid)
         IN  reminders' = rs /\ stored' = Save(rs, ok)
    /\ firing' = firing \ {rid}
    /\ UNCHANGED <<jobs, minted, fired, del>>
    /\ UNCHANGED <<running, pipeVars, recVars, auxVars, wsVars, calls, chatVars, tutVars>>

\* delete(rid), lines 208-209: an id that is not in the dict returns False;
\* otherwise the call goes on.
DeleteCall(rid) ==
    /\ del.st = "idle"
    /\ del' = IF reminders[rid] = 0
              THEN [st |-> "idle", rid |-> rid, ret |-> "false"]
              ELSE [st |-> "found", rid |-> rid, ret |-> ""]
    /\ UNCHANGED <<reminders, jobs, stored, minted, firing, fired>>
    /\ UNCHANGED <<running, pipeVars, recVars, auxVars, wsVars, calls, chatVars, tutVars>>

\* delete, lines 210-217: remove_job (a missing job raises, which is passed
\* over), pop, _save, return True.
DeleteFinish ==
    /\ del.st = "found"
    /\ \E ok \in BOOLEAN :
         LET rs == Without(reminders, del.rid)
         IN  reminders' = rs /\ stored' = Save(rs, ok)
    /\ jobs' = jobs \ {del.rid}
    /\ del' = [del EXCEPT !.st = "idle", !.ret = "true"]
    /\ UNCHANGED <<minted, firing, fired>>
    /\ UNCHANGED <<running, pipeVars, recVars, auxVars, wsVars, calls, chatVars, tutVars>>

\* -------------------------------------------------------- openclaw_client
\* A call of the client: kind "chat" or "raw" ("" before it is made), and st
\*   "none"     not made
\*   "calling"  inside _run_openclaw
\*   "got"      chat has the reply (line 207 returned)
\*   "user"     chat has appended the user entry (210)
\*   "done"     returned to the caller
\*   "failed"   _run_openclaw raised, and so did the call
NoChat == [kind |-> "", st |-> "none"]

\* Whether a call of this kind writes to the conversation log: chat does
\* (210-212), chat_raw does not (228).
Records_All(kind) == TRUE
Records(kind) == kind = "chat"

InitChat ==
    /\ history = <<>>
    /\ chat = [k \in Chats |-> NoChat]

\* chat(message) or chat_raw(message) is called, from the pipeline thread or
\* from an executor thread of main.py (173, 327).
ChatCall(k) ==
    /\ chat[k].st = "none"
    /\ \A j \in Chats : j < k => chat[j].st # "none"
    /\ \E kind \in {"chat", "raw"} :
         chat' = [chat EXCEPT ![k] = [kind |-> kind, st |-> "calling"]]
    /\ UNCHANGED history
    /\ UNCHANGED <<running, pipeVars, recVars, auxVars, wsVars, calls, remVars, tutVars>>

\* _run_openclaw, lines 102-180: a reply, or RuntimeError. chat_raw returns
\* the reply (228); chat goes on to its appends.
ModelReturns(k) ==
    /\ chat[k].st = "calling"
    /\ \E ok \in BOOLEAN :
         chat' = [chat EXCEPT ![k].st =
                    IF ~ok THEN "failed"
                    ELSE IF Records(chat[k].kind) THEN "got" ELSE "done"]
    /\ UNCHANGED history
    /\ UNCHANGED <<running, pipeVars, recVars, auxVars, wsVars, calls, remVars, tutVars>>

\* chat, line 210
AppendUser(k) ==
    /\ chat[k].st = "got"
    /\ history' = Append(history, <<"user", k>>)
    /\ chat' = [chat EXCEPT ![k].st = "user"]
    /\ UNCHANGED <<running, pipeVars, recVars, auxVars, wsVars, calls, remVars, tutVars>>

\* chat, lines 211-215: the model entry, the save, the return
AppendModel(k) ==
    /\ chat[k].st = "user"
    /\ history' = Append(history, <<"model", k>>)
    /\ chat' = [chat EXCEPT ![k].st = "done"]
    /\ UNCHANGED <<running, pipeVars, recVars, auxVars, wsVars, calls, remVars, tutVars>>

\* ----------------------------------------------------------- tutor_engine
\* TutorSession.__init__, lines 62-85. Concepts are numbered 1..concepts in
\* the order extract_concepts returned them; saved counts the runs of
\* _save_session.
NewSession ==
    [state |-> "idle", concepts |-> 0, q_index |-> 0, current_concept |-> 0,
     correct |-> 0, incorrect |-> 0, weak_topics |-> <<>>, exchange_log |-> 0,
     difficulty |-> 1, saved |-> 0]

\* A tutor thread: pc is
\*   "idle"        not running
\*   "extract"     _start_session: the intro is spoken, extract_concepts next
\*   "ask"         at the head of ask_next_question
\*   "gen"         in _generate_question (252)
\*   "set"         question generated, before the block of 254-256
\*   "evaluating"  evaluate_answer: in chat_raw (159)
\*   "score"       before the block of 170-194
\*   "advance"     feedback given, before the block of 212-215
\*   "branch"      at line 218
\* s is the session it works on, ret what its evaluate_answer call last
\* returned ("none", "no_active", "evaluated", or "raised" for an exception of
\* _generate_question). The locals are dead once the thread's call has ended.
IdleWorker ==
    [pc |-> "idle", s |-> 0, concept |-> 0, correct |-> FALSE, remaining |-> FALSE,
     ret |-> "none"]
Ended(w, how) == [IdleWorker EXCEPT !.ret = how]

\* Where q_index stops counting
QCap == IF MaxConcepts > MaxQuestions THEN MaxConcepts ELSE MaxQuestions

\* _get_next_concepts, lines 227-236
InSeq(x, q) == \E i \in 1..Len(q) : q[i] = x
RECURSIVE Fresh(_, _)
Fresh(weak, base) ==
    IF weak = <<>> THEN <<>>
    ELSE IF InSeq(Head(weak), base) THEN Fresh(Tail(weak), base)
    ELSE <<Head(weak)>> \o Fresh(Tail(weak), Append(base, Head(weak)))
get_next_concepts(ts) ==
    LET base == [i \in 1..(IF ts.concepts > ts.q_index
                           THEN ts.concepts - ts.q_index ELSE 0) |-> ts.q_index + i]
    IN  base \o Fresh(ts.weak_topics, base)

\* A counter of the session, which the model stops counting at max.
Bump(n, max) == IF n < max THEN n + 1 ELSE n

\* _finish, lines 271-289: FINISHED, the summary is spoken, idle is published
\* and the summary is appended to the file.
finish(ts) == [ts EXCEPT !.state = "finished", !.saved = Bump(@, MaxSaves)]

\* Whether start() has to end the session it finds, lines 366-368
Unfinished(ts) == ts.state \notin {"idle", "finished"}

InitTutor ==
    /\ sessions = [s \in Sessions |-> NewSession]
    /\ session = 0
    /\ made = 0
    /\ wk = [w \in Workers |-> IdleWorker]

\* TutorEngine.start, lines 366-402: the current session is finished unless it
\* is IDLE or FINISHED, the new one becomes the current session in state
\* ACTIVE, and its _start_session thread is started.
Start ==
    /\ made < MaxSessions
    /\ LET new == made + 1
           ended == IF session # 0 /\ Unfinished(sessions[session])
                    THEN [sessions EXCEPT ![session] = finish(@)]
                    ELSE sessions
       IN  /\ sessions' = [ended EXCEPT ![new].state = "active"]
           /\ session' = new
           /\ made' = new
           /\ wk' = [wk EXCEPT ![new] = [IdleWorker EXCEPT !.pc = "extract", !.s = new]]
    /\ UNCHANGED <<running, pipeVars, recVars, auxVars, wsVars, calls, remVars, chatVars>>

\* TutorEngine.end, lines 415-421
End ==
    /\ session # 0
    /\ sessions' = [sessions EXCEPT ![session] = finish(@)]
    /\ UNCHANGED <<session, made, wk>>
    /\ UNCHANGED <<running, pipeVars, recVars, auxVars, wsVars, calls, remVars, chatVars>>

\* _start_session, lines 383-391: extract_concepts leaves at least one concept
\* (116), then ask_next_question is called.
Extract(w) ==
    /\ wk[w].pc = "extract"
    /\ \E n \in 1..MaxConcepts :
         sessions' = [sessions EXCEPT ![wk[w].s].concepts = n]
    /\ wk' = [wk EXCEPT ![w].pc = "ask"]
    /\ UNCHANGED <<session, made>>
    /\ UNCHANGED <<running, pipeVars, recVars, auxVars, wsVars, calls, remVars, chatVars>>

\* ask_next_question, lines 243-250: with nothing remaining the session is
\* finished; otherwise the concept is chosen and the state is ASKING.
AskNext(w) ==
    /\ wk[w].pc = "ask"
    /\ LET s == wk[w].s
           remaining == get_next_concepts(sessions[s])
       IN  IF remaining = <<>>
           THEN /\ sessions' = [sessions EXCEPT ![s] = finish(@)]
                /\ wk' = [wk EXCEPT ![w] = Ended(w, "evaluated")]
           ELSE /\ sessions' = [sessions EXCEPT ![s].current_concept = remaining[1],
                                                ![s].state = "asking"]
                /\ wk' = [wk EXCEPT ![w].pc = "gen", ![w].concept = remaining[1]]
    /\ UNCHANGED <<session, made>>
    /\ UNCHANGED <<running, pipeVars, recVars, auxVars, wsVars, calls, remVars, chatVars>>

\* _generate_question, line 252 (121-131): chat_raw returns the question, or
\* raises, which nothing in ask_next_question or _start_session catches.
Generate(w) ==
    /\ wk[w].pc = "gen"
    /\ \E ok \in BOOLEAN :
         wk' = [wk EXCEPT ![w] = IF ok THEN [@ EXCEPT !.pc = "set"] ELSE Ended(w, "raised")]
    /\ UNCHANGED <<sessions, session, made>>
    /\ UNCHANGED <<running, pipeVars, recVars, auxVars, wsVars, calls, remVars, chatVars>>

\* ask_next_question, lines 254-269: AWAITING_ANSWER, the question is
\* published and spoken, and the thread's call returns.
SetQuestion(w) ==
    /\ wk[w].pc = "set"
    /\ sessions' = [sessions EXCEPT ![wk[w].s].state = "awaiting_answer"]
    /\ wk' = [wk EXCEPT ![w] = Ended(w, "evaluated")]
    /\ UNCHANGED <<session, made>>
    /\ UNCHANGED <<running, pipeVars, recVars, auxVars, wsVars, calls, remVars, chatVars>>

\* The check of line 142
Awaiting_OrEvaluating(ts) == ts.state \in {"awaiting_answer", "evaluating"}
Awaiting_Always(ts) == TRUE
Awaiting(ts) == ts.state = "awaiting_answer"

\* TutorEngine.answer (409-413) and evaluate_answer, lines 141-148: outside
\* AWAITING_ANSWER the call returns "No active question."; otherwise the state
\* is EVALUATING and the concept is read.
Answer(w) ==
    /\ w \in Answerers
    /\ wk[w].pc = "idle"
    /\ session # 0
    /\ IF ~Awaiting(sessions[session])
       THEN /\ wk' = [wk EXCEPT ![w] = [IdleWorker EXCEPT !.ret = "no_active"]]
            /\ UNCHANGED sessions
       ELSE /\ sessions' = [sessions EXCEPT ![session].state = "evaluating"]
            /\ wk' = [wk EXCEPT ![w] =
                        [IdleWorker EXCEPT !.pc = "evaluating", !.s = session,
                                           !.concept = sessions[session].current_concept]]
    /\ UNCHANGED <<session, made>>
    /\ UNCHANGED <<running, pipeVars, recVars, auxVars, wsVars, calls, remVars, chatVars>>

\* evaluate_answer, lines 158-167: the verdict of the model, False when the
\* call or the parsing fails.
Evaluate(w) ==
    /\ wk[w].pc = "evaluating"
    /\ \E correct \in BOOLEAN :
         wk' = [wk EXCEPT ![w].pc = "score", ![w].correct = correct]
    /\ UNCHANGED <<sessions, session, made>>
    /\ UNCHANGED <<running, pipeVars, recVars, auxVars, wsVars, calls, remVars, chatVars>>

\* evaluate_answer, lines 170-209: score, topics, difficulty and log; the
\* feedback is published and spoken.
Score(w) ==
    /\ wk[w].pc = "score"
    /\ LET s == wk[w].s
           c == wk[w].concept
       IN  sessions' = [sessions EXCEPT ![s] =
             IF wk[w].correct
             THEN [@ EXCEPT !.correct = Bump(@, MaxQuestions),
                            !.difficulty = IF @ < 3 THEN @ + 1 ELSE @,
                            !.exchange_log = Bump(@, MaxQuestions)]
             ELSE [@ EXCEPT !.incorrect = Bump(@, MaxQuestions),
                            !.weak_topics = IF InSeq(c, @) THEN @ ELSE Append(@, c),
                            !.difficulty = IF @ > 1 THEN @ - 1 ELSE @,
                            !.exchange_log = Bump(@, MaxQuestions)]]
    /\ wk' = [wk EXCEPT ![w].pc = "advance"]
    /\ UNCHANGED <<session, made>>
    /\ UNCHANGED <<running, pipeVars, recVars, auxVars, wsVars, calls, remVars, chatVars>>

\* evaluate_answer, lines 212-215. (From q_index = len(concepts) on,
\* concepts[q_index:] is empty whatever q_index is.)
Advance(w) ==
    /\ wk[w].pc = "advance"
    /\ LET s == wk[w].s
           ts == [sessions[s] EXCEPT !.q_index = Bump(@, QCap)]
       IN  /\ sessions' = [sessions EXCEPT ![s] = [ts EXCEPT !.state = "active"]]
           /\ wk' = [wk EXCEPT ![w].pc = "branch",
                               ![w].remaining = get_next_concepts(ts) # <<>>]
    /\ UNCHANGED <<session, made>>
    /\ UNCHANGED <<running, pipeVars, recVars, auxVars, wsVars, calls, remVars, chatVars>>

\* evaluate_answer, lines 218-223: the next question is asked by this thread,
\* or the session is finished and the call returns.
Branch(w) ==
    /\ wk[w].pc = "branch"
    /\ IF wk[w].remaining
       THEN /\ wk' = [wk EXCEPT ![w].pc = "ask"]
            /\ UNCHANGED sessions
       ELSE /\ sessions' = [sessions EXCEPT ![wk[w].s] = finish(@)]
            /\ wk' = [wk EXCEPT ![w] = Ended(w, "evaluated")]
    /\ UNCHANGED <<session, made>>
    /\ UNCHANGED <<running, pipeVars, recVars, auxVars, wsVars, calls, remVars, chatVars>>

\* ------------------------------------------------- handle_mic_websocket
\* One call of handle_mic_websocket, lines 633-689. pc is
\*   "none"          not connected
\*   "receiving"     in the loop of lines 657-662
\*   "transcribing"  in transcribe (670)
\*   "returned"      the coroutine has ended
\* chunks is len(audio_chunks), phase the "state" of the last event the call
\* (or its _route_bg thread) gave broadcast_sync, bg the _route_bg thread:
\* "none", "routing", "ended", "raised".
NoMic == [pc |-> "none", chunks |-> 0, phase |-> "none", bg |-> "none"]

InitMic == mic = [m \in Mics |-> NoMic]

\* Lines 651-655: the websocket is accepted and listening is broadcast.
MicAccept(m) ==
    /\ mic[m].pc = "none"
    /\ mic' = [mic EXCEPT ![m].pc = "receiving", ![m].phase = "listening"]
    /\ UNCHANGED <<running, pipeVars, recVars, wsVars, svcVars, devVars>>

\* What the call does on END, lines 664-669: with no audio it closes the
\* websocket and returns; otherwise thinking is broadcast and transcribe is
\* called.
OnEnd(c) ==
    IF c.chunks = 0
    THEN [c EXCEPT !.pc = "returned"]
    ELSE [c EXCEPT !.pc = "transcribing", !.phase = "thinking"]

\* Lines 657-662 and 685-686: a binary message is kept, END leaves the loop,
\* and a receive that raises (the connection failed) goes to the handler of
\* line 685, which only logs.
MicReceive(m) ==
    /\ mic[m].pc = "receiving"
    /\ \/ /\ mic[m].chunks < MaxChunks
          /\ mic' = [mic EXCEPT ![m].chunks = @ + 1]
       \/ mic' = [mic EXCEPT ![m] = OnEnd(@)]
       \/ mic' = [mic EXCEPT ![m].pc = "returned"]
    /\ UNCHANGED <<running, pipeVars, recVars, wsVars, svcVars, devVars>>

\* Lines 670-683. An empty transcript: the apology is sent to the client, then
\* idle is broadcast (672-675); a send that raises goes to line 685 before the
\* broadcast. Otherwise thinking is broadcast with the transcript and the
\* _route_bg thread is started (677-683).
MicTranscribe(m) ==
    /\ mic[m].pc = "transcribing"
    /\ \E transcript \in {"", "words"}, sent \in BOOLEAN :
         mic' = [mic EXCEPT ![m] =
                   IF transcript = ""
                   THEN [@ EXCEPT !.pc = "returned",
                                  !.phase = IF sent THEN "idle" ELSE @]
                   ELSE [@ EXCEPT !.pc = "returned", !.phase = "thinking",
                                  !.bg = "routing"]]
    /\ UNCHANGED <<running, pipeVars, recVars, wsVars, svcVars, devVars>>

\* _route_bg, lines 680-682: _route returns and idle is broadcast, or _route
\* raises (gemini_client.chat at line 249 is not guarded) and the thread ends
\* before line 682. A dispatch that answers broadcasts speaking first.
MicRoute(m) ==
    /\ mic[m].bg = "routing"
    /\ \/ mic' = [mic EXCEPT ![m].phase = "speaking"]  /\ mic[m].phase = "thinking"
       \/ mic' = [mic EXCEPT ![m].bg = "ended", ![m].phase = "idle"]
       \/ mic' = [mic EXCEPT ![m].bg = "raised"]
    /\ UNCHANGED <<running, pipeVars, recVars, wsVars, svcVars, devVars>>

\* ------------------------------------------------- the capture stream
\* The input stream of pa.open (422-428) as its one reader sees it: the device
\* appends the frames it captures, a read takes the oldest ones. The thread is
\*   "wake"        in the wake-word read of line 438
\*   "query"       in _record_audio, before get_read_available (344)
\*   "drop"        before the read of line 346
\*   "read"        in the loop of lines 351-374
\*   "turn"        between the return of _record_audio and the next pass or
\*                 the end of the turn
\*   "post_query"  before get_read_available of line 527
\*   "post_drop"   before the read of line 529
InitDev ==
    /\ d_pc = "wake"
    /\ d_buf = <<>>
    /\ d_clock = 0
    /\ d_mark = 0
    /\ d_post = 0
    /\ available = 0
    /\ d_frames = <<>>
    /\ d_flushed = ""

InitAux == InitDev /\ InitMic

\* The device captures one more frame.
Capture ==
    /\ d_clock < MaxCaptured
    /\ d_clock' = d_clock + 1
    /\ d_buf' = Append(d_buf, d_clock + 1)
    /\ UNCHANGED <<d_pc, d_mark, d_post, available, d_frames, d_flushed>>
    /\ UNCHANGED <<running, pipeVars, recVars, wsVars, svcVars, micVars>>

\* _record_audio is called (489, 574): nothing recorded, the flush not run.
PassStart ==
    /\ d_pc' = "query"
    /\ d_mark' = d_clock
    /\ d_frames' = <<>>
    /\ d_flushed' = ""
    /\ available' = 0

\* Lines 438-445: the wake-word read takes the oldest frame; on the keyword the
\* recording pass is called.
WakeFrame ==
    /\ d_pc = "wake"
    /\ d_buf # <<>>
    /\ d_buf' = Tail(d_buf)
    /\ \/ PassStart
       \/ UNCHANGED <<d_pc, d_mark, available, d_frames, d_flushed>>
    /\ UNCHANGED <<d_clock, d_post>>
    /\ UNCHANGED <<running, pipeVars, recVars, wsVars, svcVars, micVars>>

\* Where the thread goes when the flush is over
AfterFlush(at) == IF at \in {"query", "drop"} THEN "read" ELSE "wake"

\* get_read_available, lines 344-345 and 527-528: the number of buffered
\* frames; with none the read is skipped. It may raise, which lines 347-348
\* and 530-531 swallow.
FlushQuery ==
    /\ d_pc \in {"query", "post_query"}
    /\ \/ /\ available' = Len(d_buf)
          /\ IF Len(d_buf) > 0
             THEN /\ d_pc' = IF d_pc = "query" THEN "drop" ELSE "post_drop"
                  /\ UNCHANGED d_flushed
             ELSE /\ d_pc' = AfterFlush(d_pc)
                  /\ d_flushed' = "ok"
       \/ /\ d_pc' = AfterFlush(d_pc)
          /\ d_flushed' = "raised"
          /\ UNCHANGED available
    /\ UNCHANGED <<d_buf, d_clock, d_mark, d_post, d_frames>>
    /\ UNCHANGED <<running, pipeVars, recVars, wsVars, svcVars, micVars>>

\* audio_stream.read(n): what is left of the buffer
ReadOff_Newest(buf, n) == SubSeq(buf, 1, Len(buf) - n)
ReadOff(buf, n) == SubSeq(buf, n + 1, Len(buf))

\* Lines 346 and 529: the read of `available` frames, whose result is dropped;
\* it may raise, and the exception is swallowed.
FlushRead ==
    /\ d_pc \in {"drop", "post_drop"}
    /\ \/ /\ d_buf' = ReadOff(d_buf, available)
          /\ d_flushed' = "ok"
       \/ /\ d_flushed' = "raised"
          /\ UNCHANGED d_buf
    /\ d_pc' = AfterFlush(d_pc)
    /\ UNCHANGED <<d_clock, d_mark, d_post, available, d_frames>>
    /\ UNCHANGED <<running, pipeVars, recVars, wsVars, svcVars, micVars>>

\* Lines 355-356: the read of one chunk waits for a frame and appends it to
\* frames; it may raise, which ends the turn at line 539 with no flush.
PassRead ==
    /\ d_pc = "read"
    /\ Len(d_frames) < MaxPassFrames
    /\ d_buf # <<>>
    /\ \/ /\ d_frames' = Append(d_frames, Head(d_buf))
          /\ d_buf' = Tail(d_buf)
          /\ UNCHANGED d_pc
       \/ /\ d_pc' = "wake"
          /\ UNCHANGED <<d_buf, d_frames>>
    /\ UNCHANGED <<d_clock, d_mark, d_post, available, d_flushed>>
    /\ UNCHANGED <<running, pipeVars, recVars, wsVars, svcVars, micVars>>

\* Lines 352-353, 369-376: the pass returns, by the stop flag, by one of the
\* silence conditions or at the end of range().
PassReturn ==
    /\ d_pc = "read"
    /\ d_pc' = "turn"
    /\ UNCHANGED <<d_buf, d_clock, d_mark, d_post, available, d_frames, d_flushed>>
    /\ UNCHANGED <<running, pipeVars, recVars, wsVars, svcVars, micVars>>

\* The rest of the turn. A follow-up round (574) or a barge-in (533-537, 489)
\* calls _record_audio again; the turn that runs to line 521 goes on to the
\* flush of 526-531; an empty transcript (497-500) or an error (539-543) goes
\* back to the wake-word read with no flush.
TurnGoesOn ==
    /\ d_pc = "turn"
    /\ \/ PassStart /\ UNCHANGED d_post
       \/ /\ d_pc' = "post_query"
          /\ d_post' = d_clock
          /\ d_flushed' = ""
          /\ UNCHANGED <<d_mark, available, d_frames>>
       \/ /\ d_pc' = "wake"
          /\ UNCHANGED <<d_mark, d_post, available, d_frames, d_flushed>>
    /\ UNCHANGED <<d_buf, d_clock>>
    /\ UNCHANGED <<running, pipeVars, recVars, wsVars, svcVars, micVars>>

\* ------------------------------------------------- the services at rest
InitSvc == InitTts /\ InitRem /\ InitChat /\ InitTutor

\* ------------------------------------------------------- voice_pipeline
\* the playback of thread t's latest speak call is a reply and is producing
\* audio (it holds the lock and has not finished)
ReplyLive(t) ==
    /\ handle[t] # None
    /\ units[handle[t]].kind = "reply"
    /\ units[handle[t]].st = "playing"
\* some playback thread t started for a reply is producing audio
OwnReplyLive(t) ==
    \E u \in Playbacks :
      units[u].st = "playing" /\ units[u].owner = t /\ units[u].kind = "reply"

\* No speak call of _smart_dispatch is pending.
NoCall == [kind |-> "", blocking |-> FALSE]

Idle(t) == /\ round' = [round EXCEPT ![t] = WakeRound]
           /\ rec' = [rec EXCEPT ![t] = NoRecord]
           /\ say' = [say EXCEPT ![t] = NoCall]
           /\ action' = [action EXCEPT ![t] = ""]

\* stop_pipeline, lines 624-628
StopPipeline ==
    /\ running' = FALSE
    /\ UNCHANGED <<pipeVars, recVars, auxVars, wsVars, svcVars>>

\* start_pipeline, lines 603-621: no check of _running or _pipeline_thread.
StartPipeline(t) ==
    /\ pc[t] = "none"
    /\ \A s \in Threads : s < t => pc[s] # "none"
    /\ running' = TRUE
    /\ pc' = [pc EXCEPT ![t] = "boot"]
    /\ UNCHANGED <<trigger_recording, round, rec, phase, say, units, tts_lock, handle>>
    /\ UNCHANGED <<action, recVars, auxVars, wsVars, svcVars>>

\* main.py lifespan, lines 94-100: start_pipeline is called once, at startup
LifespanStartup ==
    /\ app = "init"
    /\ app' = "up"
    /\ StartPipeline(1)

\* main.py lifespan, line 106: stop_pipeline at shutdown
LifespanShutdown ==
    /\ app = "up"
    /\ app' = "down"
    /\ running' = FALSE
    /\ UNCHANGED <<pc, trigger_recording, round, rec, phase, say, units, tts_lock, handle>>
    /\ UNCHANGED <<action, recVars, auxVars, wsVars, svcVars>>

\* lines 421-431 placed before the checks of 392 and 399: the stream is opened
\* and idle is published whether or not there is a detector
Boot_OpensFirst(t) ==
    /\ pc[t] = "boot"
    /\ \E ok \in BOOLEAN :
         /\ pc' = [pc EXCEPT ![t] = IF ok THEN "loop" ELSE "off"]
         /\ phase' = [phase EXCEPT ![t] = "idle"]
    /\ UNCHANGED <<running, app, trigger_recording, round, rec, say, units, tts_lock, handle>>
    /\ UNCHANGED <<action, recVars, auxVars, wsVars, svcVars>>

\* _wake_word_loop, lines 389-434: without an access key, or when the detector
\* cannot be created, the function returns; otherwise the stream is opened and
\* idle is broadcast.
Boot(t) ==
    /\ pc[t] = "boot"
    /\ \E ok \in BOOLEAN :
         IF ok
         THEN /\ pc' = [pc EXCEPT ![t] = "loop"]
              /\ phase' = [phase EXCEPT ![t] = "idle"]
         ELSE /\ pc' = [pc EXCEPT ![t] = "off"]
              /\ UNCHANGED phase
    /\ UNCHANGED <<running, app, trigger_recording, round, rec, say, units, tts_lock, handle>>
    /\ UNCHANGED <<action, recVars, auxVars, wsVars, svcVars>>

\* `while _running` read as `while True`
WakeCheck_Forever(t) ==
    /\ pc[t] = "loop"
    /\ IF trigger_recording[t]
       THEN /\ trigger_recording' = [trigger_recording EXCEPT ![t] = FALSE]
            /\ pc' = [pc EXCEPT ![t] = "detected"]
       ELSE /\ pc' = [pc EXCEPT ![t] = "wake_read"]
            /\ UNCHANGED trigger_recording
    /\ UNCHANGED <<running, app, round, rec, phase, say, units, tts_lock, handle>>
    /\ UNCHANGED <<action, recVars, auxVars, wsVars, svcVars>>

\* Lines 435-437, 441-443: `while _running` is found true; trigger_recording
\* forces the trigger, otherwise the thread goes into audio_stream.read.
WakeCheck(t) ==
    /\ pc[t] = "loop"
    /\ running
    /\ IF trigger_recording[t]
       THEN /\ trigger_recording' = [trigger_recording EXCEPT ![t] = FALSE]
            /\ pc' = [pc EXCEPT ![t] = "detected"]
       ELSE /\ pc' = [pc EXCEPT ![t] = "wake_read"]
            /\ UNCHANGED trigger_recording
    /\ UNCHANGED <<running, app, round, rec, phase, say, units, tts_lock, handle>>
    /\ UNCHANGED <<action, recVars, auxVars, wsVars, svcVars>>

\* Lines 438-445: the read returns one frame, which is given to the detector.
\* A failing read raises (line 539).
WakeRead(t) ==
    /\ pc[t] = "wake_read"
    /\ \E out \in {"quiet", "wake", "raise"} :
         pc' = [pc EXCEPT ![t] = CASE out = "quiet" -> "loop"
                                   [] out = "wake" -> "detected"
                                   [] OTHER -> "error"]
    /\ UNCHANGED <<running, app, trigger_recording, round, rec, phase, say, units,
                   tts_lock, handle>>
    /\ UNCHANGED <<action, recVars, auxVars, wsVars, svcVars>>

\* Line 435 with _running false, then the finally block 545-550.
LoopExit(t) ==
    /\ pc[t] = "loop"
    /\ ~running
    /\ pc' = [pc EXCEPT ![t] = "stopped"]
    /\ UNCHANGED <<running, app, trigger_recording, round, rec, phase, say, units,
                   tts_lock, handle>>
    /\ UNCHANGED <<action, recVars, auxVars, wsVars, svcVars>>

\* Where a thread goes with the locals r of its recording call
AfterRecord_Straight(r) == IF r.why = "" THEN "record" ELSE "transcribe"
AfterRecord(r) == IF r.why = "" THEN "record" ELSE "recorded"

\* Lines 446-448 and the start of _record_audio (489, 326-349)
Detected(t) ==
    /\ pc[t] = "detected"
    /\ phase' = [phase EXCEPT ![t] = "listening"]
    /\ LET r == RecordInit(FrameLength, MaxDurationTenths, WakeSilenceTenths)
       IN  /\ rec' = [rec EXCEPT ![t] = r]
           /\ pc' = [pc EXCEPT ![t] = AfterRecord(r)]
    /\ UNCHANGED <<running, app, trigger_recording, round, say, units, tts_lock, handle>>
    /\ UNCHANGED <<action, recVars, auxVars, wsVars, svcVars>>

\* _record_audio, lines 351-355: the loop goes on, _running is found true and
\* the thread goes into audio_stream.read.
RecordCheck_Unguarded(t) ==
    /\ pc[t] = "record"
    /\ pc' = [pc EXCEPT ![t] = "record_read"]
    /\ UNCHANGED <<running, app, trigger_recording, round, rec, phase, say, units,
                   tts_lock, handle>>
    /\ UNCHANGED <<action, recVars, auxVars, wsVars, svcVars>>
RecordCheck(t) ==
    /\ pc[t] = "record"
    /\ running
    /\ pc' = [pc EXCEPT ![t] = "record_read"]
    /\ UNCHANGED <<running, app, trigger_recording, round, rec, phase, say, units,
                   tts_lock, handle>>
    /\ UNCHANGED <<action, recVars, auxVars, wsVars, svcVars>>

\* _record_audio, lines 355-374: the read returns a frame and the rest of the
\* iteration runs; the read may raise, which ends the turn at line 539.
RecordRead(t) ==
    /\ pc[t] = "record_read"
    /\ \/ \E rms \in Levels :
            LET r == RecordIter(rec[t], rms)
            IN  /\ rec' = [rec EXCEPT ![t] = r]
                /\ pc' = [pc EXCEPT ![t] = AfterRecord(r)]
       \/ /\ pc' = [pc EXCEPT ![t] = "error"]
          /\ UNCHANGED rec
    /\ UNCHANGED <<running, app, trigger_recording, round, phase, say, units,
                   tts_lock, handle>>
    /\ UNCHANGED <<action, recVars, auxVars, wsVars, svcVars>>

\* _record_audio, lines 352-353 and 376
RecordStop(t) ==
    /\ pc[t] = "record"
    /\ ~running
    /\ rec' = [rec EXCEPT ![t] = RecordBreak(rec[t])]
    /\ pc' = [pc EXCEPT ![t] = "recorded"]
    /\ UNCHANGED <<running, app, trigger_recording, round, phase, say, units,
                   tts_lock, handle>>
    /\ UNCHANGED <<action, recVars, auxVars, wsVars, svcVars>>

\* Lines 492 and 575: thinking "..." is broadcast before transcribe is called.
Thinking(t) ==
    /\ pc[t] = "recorded"
    /\ phase' = [phase EXCEPT ![t] = "thinking"]
    /\ pc' = [pc EXCEPT ![t] = "transcribe"]
    /\ UNCHANGED <<running, app, trigger_recording, round, rec, say, units,
                   tts_lock, handle>>
    /\ UNCHANGED <<action, recVars, auxVars, wsVars, svcVars>>

\* Where an empty transcript leads: `continue` at line 499 in the wake-triggered
\* turn, `break` at line 582 in follow-up round n.
AfterEmpty_Continues(n) == IF n = WakeRound THEN "loop" ELSE "routed"
AfterEmpty_Retries(n) == "recorded"
AfterEmpty(n) == IF n = WakeRound THEN "loop" ELSE "fu_exit"

\* Lines 493-502 (wake-triggered) and 576-585 (follow-up): transcribe returns
\* "" or a text, or raises.
Transcribe(t) ==
    /\ pc[t] = "transcribe"
    /\ \E out \in {"empty", "text", "raise"} :
         CASE out = "empty" ->
                /\ phase' = [phase EXCEPT ![t] = "idle"]
                /\ pc' = [pc EXCEPT ![t] = AfterEmpty(round[t])]
                /\ rec' = [rec EXCEPT ![t] = NoRecord]
           [] out = "text" ->
                /\ phase' = [phase EXCEPT ![t] = "thinking"]
                /\ pc' = [pc EXCEPT ![t] = "dispatch"]
                /\ rec' = [rec EXCEPT ![t] = NoRecord]
           [] OTHER ->
                /\ pc' = [pc EXCEPT ![t] = "error"]
                /\ UNCHANGED <<phase, rec>>
    /\ UNCHANGED <<running, app, trigger_recording, round, say, units, tts_lock, handle>>
    /\ UNCHANGED <<action, recVars, auxVars, wsVars, svcVars>>

\* _smart_dispatch, lines 217-251, up to the call of tts_speak_fn.
\*   hiccup       chat_raw raised (219-221)
\*   remind       reminder_engine.add returned, speaking is broadcast (234-235)
\*   remind_fail  reminder_engine.add raised (237-239)
\*   study        speaking is broadcast (243)
\*   chat         gemini_client.chat returned, speaking is broadcast (249-250)
\*   chat_fail    gemini_client.chat raised: out of _route to line 539
Dispatch(t) ==
    /\ pc[t] = "dispatch"
    /\ \E out \in {"hiccup", "remind", "remind_fail", "study", "chat", "chat_fail"} :
         /\ action' = [action EXCEPT ![t] =
                         CASE out = "hiccup" -> ""
                           [] out = "remind_fail" -> "remind"
                           [] out = "chat_fail" -> "chat"
                           [] OTHER -> out]
         /\ CASE out = "hiccup" ->
                   /\ say' = [say EXCEPT ![t] = [kind |-> "hiccup", blocking |-> TRUE]]
                   /\ pc' = [pc EXCEPT ![t] = "say"]
                   /\ UNCHANGED phase
              [] out = "remind_fail" ->
                   /\ say' = [say EXCEPT ![t] = [kind |-> "sorry", blocking |-> FALSE]]
                   /\ pc' = [pc EXCEPT ![t] = "say"]
                   /\ UNCHANGED phase
              [] out = "chat_fail" ->
                   /\ pc' = [pc EXCEPT ![t] = "error"]
                   /\ UNCHANGED <<say, phase>>
              [] OTHER ->
                   /\ phase' = [phase EXCEPT ![t] = "speaking"]
                   /\ say' = [say EXCEPT ![t] = [kind |-> "reply", blocking |-> TRUE]]
                   /\ pc' = [pc EXCEPT ![t] = "say"]
    /\ UNCHANGED <<running, app, trigger_recording, round, rec, units, tts_lock, handle>>
    /\ UNCHANGED <<recVars, auxVars, wsVars, svcVars>>

\* custom_tts_speak, lines 451-486, called by _smart_dispatch. Both branches
\* call tts_speak_fn(text, blocking=False). On the blocking branch tts_thread is
\* what that call returned; `if not tts_thread: return` (457-458) leaves before
\* the poll loop of lines 464-486, which is entered only with a thread object.
\* A reply text may be empty; the fixed apologies are not.
Say(t) ==
    /\ pc[t] = "say"
    /\ \E empty \in BOOLEAN, started \in Playbacks \cup {None} :
         /\ empty => say[t].kind = "reply"
         /\ SpeakStarts(t, IF say[t].kind = "reply" THEN "reply" ELSE "notice",
                        empty, started)
         /\ handle' = [handle EXCEPT ![t] = started]
         /\ LET tts_thread == IF started = None THEN None ELSE SpeakReturn(started)
            IN  pc' = [pc EXCEPT ![t] =
                         IF say[t].blocking /\ tts_thread # None THEN "poll"
                         ELSE "routed"]
    /\ say' = [say EXCEPT ![t] = NoCall]
    /\ UNCHANGED <<running, app, trigger_recording, round, rec, phase, tts_lock>>
    /\ UNCHANGED <<action, recVars, auxVars, wsVars, svcVars>>

\* The head of `for round_num in range(FOLLOW_UP_MAX_ROUNDS)`, line 562: entered
\* from line 517 after the wake-triggered turn, and again after each round's
\* _route (586).
RoundsLeft_OneMore(n) == n < FOLLOW_UP_MAX_ROUNDS + 1
RoundsLeft(n) == n < FOLLOW_UP_MAX_ROUNDS

FollowUpNext(t) ==
    /\ pc[t] = "routed"
    /\ LET n == round[t] + 1
       IN  IF RoundsLeft(n)
           THEN round' = [round EXCEPT ![t] = n] /\ pc' = [pc EXCEPT ![t] = "fu_round"]
           ELSE UNCHANGED round /\ pc' = [pc EXCEPT ![t] = "fu_else"]
    /\ UNCHANGED <<running, app, trigger_recording, rec, phase, say, units, tts_lock, handle>>
    /\ UNCHANGED <<action, recVars, auxVars, wsVars, svcVars>>

\* Lines 563-574: the stop flag breaks out of the loop; otherwise listening is
\* broadcast and the follow-up recording pass starts.
FollowUpRound(t) ==
    /\ pc[t] = "fu_round"
    /\ IF ~running
       THEN /\ pc' = [pc EXCEPT ![t] = "fu_exit"]
            /\ UNCHANGED <<phase, rec>>
       ELSE /\ phase' = [phase EXCEPT ![t] = "listening"]
            /\ LET r == RecordInit(FrameLength, MaxDurationTenths, FOLLOW_UP_SECONDS * 10)
               IN  /\ rec' = [rec EXCEPT ![t] = r]
                   /\ pc' = [pc EXCEPT ![t] = AfterRecord(r)]
    /\ UNCHANGED <<running, app, trigger_recording, round, say, units, tts_lock, handle>>
    /\ UNCHANGED <<action, recVars, auxVars, wsVars, svcVars>>

\* The else clause of the loop, lines 588-591: the farewell is spoken without
\* blocking and idle is broadcast.
FollowUpElse(t) ==
    /\ pc[t] = "fu_else"
    /\ \E started \in Playbacks :
         /\ SpeakStarts(t, "notice", FALSE, started)
         /\ handle' = [handle EXCEPT ![t] = started]
    /\ phase' = [phase EXCEPT ![t] = "idle"]
    /\ pc' = [pc EXCEPT ![t] = "fu_exhausted"]
    /\ UNCHANGED <<running, app, trigger_recording, round, rec, say, tts_lock>>
    /\ UNCHANGED <<action, recVars, auxVars, wsVars, svcVars>>

\* _conversational_follow_up returns after its else clause.
FollowUpReturn(t) ==
    /\ pc[t] = "fu_exhausted"
    /\ pc' = [pc EXCEPT ![t] = "fu_exit"]
    /\ UNCHANGED <<running, app, trigger_recording, round, rec, phase, say, units,
                   tts_lock, handle>>
    /\ UNCHANGED <<action, recVars, auxVars, wsVars, svcVars>>

\* Lines 521-531: idle is broadcast, buffered frames are dropped, back to the
\* head of the while loop.
TurnEnd(t) ==
    /\ pc[t] = "fu_exit"
    /\ phase' = [phase EXCEPT ![t] = "idle"]
    /\ pc' = [pc EXCEPT ![t] = "loop"]
    /\ Idle(t)
    /\ UNCHANGED <<running, app, trigger_recording, units, tts_lock, handle>>
    /\ UNCHANGED <<recVars, auxVars, wsVars, svcVars>>

\* the handler of line 539 re-raising instead of going on
OnError_Exits(t) ==
    /\ pc[t] = "error"
    /\ pc' = [pc EXCEPT ![t] = "stopped"]
    /\ UNCHANGED <<running, app, trigger_recording, round, rec, phase, say, units,
                   tts_lock, handle>>
    /\ UNCHANGED <<action, recVars, auxVars, wsVars, svcVars>>
\* Lines 539-543: any other exception of the turn is logged, idle is broadcast
\* and the while loop goes on.
OnError(t) ==
    /\ pc[t] = "error"
    /\ phase' = [phase EXCEPT ![t] = "idle"]
    /\ pc' = [pc EXCEPT ![t] = "loop"]
    /\ Idle(t)
    /\ UNCHANGED <<running, app, trigger_recording, units, tts_lock, handle>>
    /\ UNCHANGED <<recVars, auxVars, wsVars, svcVars>>

InitPipe ==
    /\ app = "init"
    /\ pc = [t \in Threads |-> "none"]
    /\ trigger_recording = [t \in Threads |-> FALSE]
    /\ round = [t \in Threads |-> WakeRound]
    /\ rec = [t \in Threads |-> NoRecord]
    /\ phase = [t \in Threads |-> "none"]
    /\ say = [t \in Threads |-> NoCall]
    /\ units = [u \in Playbacks |-> FreeUnit]
    /\ tts_lock = None
    /\ handle = [t \in Threads |-> None]
    /\ action = [t \in Threads |-> ""]

Init ==
    /\ running = FALSE
    /\ InitPipe
    /\ InitWs
    /\ InitSvc
    /\ InitAux
    /\ r_call = <<MaxDurationTenths, WakeSilenceTenths>>
    /\ r_tape = <<>>
    /\ r_pass = 1
    /\ r_rec = None
    /\ r_first = None

Turn(t) ==
    \/ Boot(t) \/ WakeCheck(t) \/ WakeRead(t) \/ LoopExit(t) \/ Detected(t)
    \/ RecordCheck(t) \/ RecordRead(t) \/ RecordStop(t) \/ Thinking(t) \/ Transcribe(t)
    \/ Dispatch(t) \/ Say(t) \/ FollowUpNext(t) \/ FollowUpRound(t)
    \/ FollowUpElse(t) \/ FollowUpReturn(t) \/ TurnEnd(t) \/ OnError(t)

\* The program as main.py composes it: one start_pipeline at startup, one
\* stop_pipeline at shutdown, and speak() shared with the other callers.
Next ==
    \/ LifespanStartup
    \/ LifespanShutdown
    \/ \E t \in Threads : Turn(t)
    \/ \E u \in Playbacks : TtsAcquire(u)
    \/ \E u \in Playbacks : TtsFinish(u)
    \/ ExtSpeak

Spec == Init /\ [][Next]_vars

\* The public controls called in any order by any caller: every start_pipeline
\* spawns one more thread. Each thread is followed through its capture loop and
\* its first recording pass.
NextCalls ==
    \/ \E t \in Threads : StartPipeline(t) /\ UNCHANGED app
    \/ StopPipeline
    \/ \E t \in Threads : Boot(t)
    \/ \E t \in Threads : WakeCheck(t)
    \/ \E t \in Threads : WakeRead(t)
    \/ \E t \in Threads : LoopExit(t)
    \/ \E t \in Threads : Detected(t)
    \/ \E t \in Threads : RecordCheck(t)
    \/ \E t \in Threads : RecordRead(t)
    \/ \E t \in Threads : RecordStop(t)

SpecCalls == Init /\ [][NextCalls]_vars

\* ------------------------------------------------------------- C1 .. C7
\* C1: a wake trigger read while the driver's reply playback is live makes the
\* driver interrupt that playback, so the playback produces no audio while the
\* recording pass that the trigger started is running. (handle[t] is set only
\* by the thread's own speak calls, so a playback it names during that pass was
\* started before the trigger was read.)
C1_TriggerInterruptsPlayback ==
    \A t \in Threads :
      (pc[t] \in {"record", "record_read"} /\ round[t] = WakeRound) => ~ReplyLive(t)

\* C2: barge-in takes the session from speaking straight to listening: when a
\* trigger is read while the driver's reply playback is live, no idle was
\* broadcast since the speaking event of that reply.
C2_BargeInSkipsIdle ==
    [][\A t \in Threads :
         (pc[t] = "wake_read" /\ pc'[t] = "detected" /\ ReplyLive(t))
         => phase[t] = "speaking"]_vars

\* C3: no recording pass reads its first frame while the playback of the
\* preceding reply is live.
C3_FirstFrameAfterPlayback ==
    [][\A t \in Threads :
         (pc[t] = "record_read" /\ rec[t].frames = 0
            /\ pc'[t] \in {"record", "recorded"} /\ rec'[t].frames = 1)
         => ~ReplyLive(t)]_vars

\* C4: over all callers of speak, at most one playback holds the lock and
\* produces audio.
Playing == {u \in Playbacks : units[u].st = "playing"}
C4_OnePlaybackAtATime == Cardinality(Playing) <= 1

C4_Witness ==
    \E u, v \in Playbacks :
      /\ units[u].st = "playing" /\ units[u].owner = Other
      /\ units[v].st = "waiting" /\ units[v].owner \in Threads

\* C5: the pipeline broadcasts no speaking event while a playback of one of its
\* earlier replies is live.
C5_SpeakingEventsDoNotOverlap ==
    [][\A t \in Threads :
         (phase[t] # "speaking" /\ phase'[t] = "speaking") => ~OwnReplyLive(t)]_vars

\* C6: whatever start_pipeline and stop_pipeline calls were made, at most one
\* thread is at a read of the audio device.
Capturing == {t \in Threads : pc[t] \in {"loop", "wake_read", "record", "record_read"}}
C6_OneCaptureLoop == Cardinality(Capturing) <= 1

\* C7: inside the follow-up loop the round number stays in
\* 0 .. FOLLOW_UP_MAX_ROUNDS - 1; once the last round has been consumed the
\* pipeline broadcasts idle, leaves the loop and returns to wake-word detection
\* without starting another follow-up pass.
C7_RoundsBounded ==
    /\ [](\A t \in Threads :
            /\ round[t] \in WakeRound .. (FOLLOW_UP_MAX_ROUNDS - 1)
            /\ pc[t] \in {"fu_else", "fu_exhausted"}
                 => round[t] = FOLLOW_UP_MAX_ROUNDS - 1
            /\ pc[t] = "fu_exhausted" => phase[t] = "idle")
    /\ [][\A t \in Threads :
            /\ (pc[t] = "fu_else" /\ pc'[t] # "fu_else")
                 => (pc'[t] = "fu_exhausted" /\ phase'[t] = "idle")
            /\ (pc[t] = "fu_exhausted" /\ pc'[t] # "fu_exhausted")
                 => pc'[t] = "fu_exit"
            /\ (pc[t] = "fu_exit" /\ pc'[t] # "fu_exit")
                 => (pc'[t] = "loop" /\ round'[t] = WakeRound /\ phase'[t] = "idle")]_vars

C7_Witness ==
    \E t \in Threads :
      /\ pc[t] = "fu_exhausted"
      /\ round[t] = FOLLOW_UP_MAX_ROUNDS - 1
      /\ phase[t] = "idle"

\* ----------------------------------------------------------- C15 .. C20
\* Thread t publishes an event in this step: the broadcast_sync calls of lines
\* 431, 447, 492, 498, 501, 235/243/250, 570, 575, 581, 585, 591, 521, 543.
Emits(t) ==
    \/ pc[t] = "boot" /\ pc'[t] = "loop"
    \/ pc[t] = "detected" /\ pc'[t] # "detected"
    \/ pc[t] = "recorded" /\ pc'[t] = "transcribe"
    \/ pc[t] = "transcribe" /\ pc'[t] \in {"loop", "fu_exit", "dispatch"}
    \/ pc[t] = "dispatch" /\ pc'[t] = "say" /\ phase'[t] = "speaking"
    \/ pc[t] = "fu_round" /\ pc'[t] \in {"record", "recorded"}
    \/ pc[t] = "fu_else" /\ pc'[t] = "fu_exhausted"
    \/ pc[t] \in {"fu_exit", "error"} /\ pc'[t] = "loop"
\* Thread t's speak call of this step starts a playback.
StartsPlayback(t) ==
    \E u \in Playbacks : units[u].st = "free" /\ units'[u].st = "waiting"
                           /\ units'[u].owner = t
\* A playback thread t started for a reply has not finished.
OwnReplyAlive(t) ==
    \E u \in Playbacks :
      units[u].st # "free" /\ units[u].owner = t /\ units[u].kind = "reply"
\* The recording pass of t has ended on the pre-speech timeout: only silence.
SilentPass(t) == pc[t] = "recorded" /\ rec[t].why = "pre" /\ ~rec[t].has_spoken

\* C15: after a wake-triggered recording pass of silence only, the thread
\* publishes idle next, not thinking, and calls neither transcribe nor dispatch.
C15_SilenceGoesStraightToIdle ==
    [][\A t \in Threads :
         (round[t] = WakeRound /\ SilentPass(t))
         => (phase'[t] # "thinking" /\ pc'[t] \notin {"transcribe", "dispatch"})]_vars

C17_EventBeforeAction ==
    [][\A t \in Threads :
         /\ StartsPlayback(t)
              => (phase[t] = "speaking" /\ pc[t] = "say" /\ say[t].kind = "reply")
         /\ (pc[t] = "record_read" /\ rec[t].frames = 0 /\ rec'[t] # rec[t])
              => phase[t] = "listening"
         /\ (pc[t] # "transcribe" /\ pc'[t] = "transcribe")
              => phase'[t] = "thinking"]_vars

\* C18: after dispatch chose remind and the reminder was registered, the
\* follow-up loop starts at round 0 once the playback of the confirmation has
\* completed.
C18_RemindThenFollowUp ==
    [][\A t \in Threads :
         (pc[t] = "routed" /\ action[t] = "remind" /\ pc'[t] = "fu_round"
            /\ round'[t] = 0)
         => ~OwnReplyAlive(t)]_vars

\* C19: once stop_pipeline has been called a thread starts no transcription, no
\* dispatch and no playback.
C19_NothingStartsAfterStop ==
    [][\A t \in Threads :
         app = "down"
         => /\ pc'[t] # pc[t] => pc'[t] \notin {"transcribe", "dispatch"}
            /\ ~StartsPlayback(t)]_vars

StreamOpen(t) == pc[t] \notin {"none", "boot", "off", "stopped"}

\* Every device read and every external call returns: a pipeline thread that
\* can take a step takes one, and a playback takes the lock when it is free and
\* ends. (Every step of a pipeline thread changes pc and every step of a
\* playback changes units.)
Fairness ==
    /\ \A t \in Threads : WF_pc(Turn(t))
    /\ \A u \in Playbacks : WF_units(TtsAcquire(u)) /\ WF_units(TtsFinish(u))

\* The pipeline with its own playbacks. speak(blocking=False) starts its thread
\* without waiting for anything (tts_client.py 163-165), so the speak calls of
\* other callers cannot hold a pipeline thread back and are left out here.
NextLive ==
    \/ LifespanStartup
    \/ LifespanShutdown
    \/ \E t \in Threads : Turn(t)
    \/ \E u \in Playbacks : TtsAcquire(u)
    \/ \E u \in Playbacks : TtsFinish(u)

SpecLive == Init /\ [][NextLive]_vars /\ Fairness

\* C21: once stop_pipeline has been called, a wake-word loop that holds the
\* audio stream and the detector eventually leaves its while loop and releases
\* them in its finally block.
C21_LoopExitsAfterStop ==
    \A t \in Threads : (app = "down" /\ StreamOpen(t)) ~> (pc[t] = "stopped")

\* stop is called in the middle of a follow-up round's recording pass
C21_Witness ==
    \E t \in Threads : app = "down" /\ pc[t] = "record_read" /\ round[t] >= 0


\* C32: after every wake trigger the pipeline eventually emits idle and is
\* back in the wake-word read, whatever the recording, the transcription, the
\* dispatch and the follow-up rounds did; when stop_pipeline came in between,
\* idle is emitted and the thread is at the head of its loop, which it leaves.
C32_TurnEndsInIdle ==
    \A t \in Threads :
        (pc[t] = "detected") ~>
            (phase[t] = "idle" /\ (pc[t] = "wake_read" \/ (pc[t] = "loop" /\ ~running)))

\* A turn that used every follow-up round has emitted idle and is about to
\* return to the wake-word loop
C32_Witness ==
    \E t \in Threads :
        running /\ pc[t] = "fu_exhausted" /\ phase[t] = "idle"
           /\ round[t] = FOLLOW_UP_MAX_ROUNDS - 1


\* The latest _smart_dispatch call of t returned at line 222: chat_raw raised.
\* (action is "" from the dispatch step on; the apology is the pending call at
\* "say" and has been made at "routed" and "fu_round".)
DispatchFailed(t) ==
    \/ pc[t] = "say" /\ say[t].kind = "hiccup"
    \/ pc[t] \in {"routed", "fu_round"} /\ action[t] = ""

\* C22: when the dispatch call fails the pipeline speaks the generic apology
\* and the next event it publishes is idle. (No reminder is set and no tutor
\* session is started: _smart_dispatch returns at line 222.)
C22_DispatchFailureGoesIdle ==
    [][\A t \in Threads :
         DispatchFailed(t) =>
           /\ (pc[t] = "say" /\ pc'[t] # "say") => StartsPlayback(t)
           /\ phase'[t] # phase[t] => phase'[t] = "idle"]_vars


\* C23: a transcription that raises or returns nothing takes the thread to idle
\* with no dispatch call and no playback started on the way, in the
\* wake-triggered turn and in a follow-up round alike: from transcribe it goes
\* to the loop head, to the end of the turn or to the error handler, and from
\* the latter two to the loop head with idle published.
C23_NoTranscriptGoesIdle ==
    [][\A t \in Threads :
         /\ (pc[t] = "transcribe" /\ pc'[t] \notin {"transcribe", "dispatch"}) =>
               /\ pc'[t] \in {"loop", "fu_exit", "error"}
               /\ pc'[t] = "loop" => phase'[t] = "idle"
               /\ phase'[t] \in {"idle", phase[t]}
               /\ ~StartsPlayback(t)
         /\ (pc[t] \in {"fu_exit", "error"} /\ pc'[t] # pc[t]) =>
               /\ pc'[t] = "loop"
               /\ phase'[t] = "idle"
               /\ ~StartsPlayback(t)]_vars

\* a follow-up round (not the last) has ended on an empty transcript
C23_Witness ==
    \E t \in Threads :
      /\ pc[t] = "fu_exit" /\ phase[t] = "idle"
      /\ round[t] >= 0 /\ round[t] < FOLLOW_UP_MAX_ROUNDS - 1


\* C24: an error raised during a turn is absorbed by the wake-word loop. The
\* handler publishes idle and goes back to the loop head with the locals of a
\* loop that has had no turn yet, so that the next wake trigger starts a turn;
\* the thread leaves the loop only from the loop head with the stop flag set,
\* and a thread in its loop holds the stream.
C24_ErrorsAbsorbed ==
    [][\A t \in Threads :
         /\ (pc[t] = "error" /\ pc'[t] # "error") =>
               /\ pc'[t] = "loop" /\ phase'[t] = "idle"
               /\ round'[t] = WakeRound /\ rec'[t] = NoRecord /\ say'[t] = NoCall
               /\ ~trigger_recording'[t]
         /\ (pc[t] # "stopped" /\ pc'[t] = "stopped") => (pc[t] = "loop" /\ ~running)
         /\ (StreamOpen(t) /\ ~StreamOpen(t)') => pc'[t] = "stopped"]_vars

\* gemini_client.chat has raised in a follow-up round
C24_Witness ==
    \E t \in Threads : pc[t] = "error" /\ round[t] >= 0 /\ action[t] = "chat"


\* C25: a thread that finds no access key, or whose detector cannot be
\* created, returns before the audio stream is opened: it has published no
\* event and made no recording, it publishes, records and speaks nothing
\* afterwards, and the application that called start_pipeline is not affected.
C25_NoDetectorNoCapture ==
    [][\A t \in Threads :
         /\ (pc[t] = "boot" /\ pc'[t] = "off") =>
               /\ phase'[t] = "none" /\ rec'[t] = NoRecord
               /\ app' = app /\ running' = running
         /\ pc[t] = "off" =>
               /\ pc'[t] = "off" /\ ~StreamOpen(t)'
               /\ phase'[t] = "none" /\ rec'[t] = NoRecord
               /\ ~StartsPlayback(t)]_vars

\* the application is up without a wake-word loop, and speak() is in use by the
\* other transports
C25_Witness ==
    \E t \in Threads :
      pc[t] = "off" /\ app = "up" /\ \E u \in Playbacks : units[u].st = "playing"


\* ------------------------------------------------------ recorder harness
\* The calls exercised: the two call sites (lines 489 and 574) and calls whose
\* silence_timeout is not shorter than max_duration.
RecordCalls ==
    { <<MaxDurationTenths, WakeSilenceTenths>>,
      <<MaxDurationTenths, FOLLOW_UP_SECONDS * 10>>,
      <<50, 40>>, <<40, 40>>, <<30, 40>> }

NewPass(call) == RecordInit(FrameLength, call[1], call[2])

InitRec ==
    /\ running = TRUE
    /\ InitPipe
    /\ InitWs
    /\ InitSvc
    /\ InitAux
    /\ r_call \in RecordCalls
    /\ r_tape = <<>>
    /\ r_pass = 1
    /\ r_rec = NewPass(r_call)
    /\ r_first = None

\* The pass reads its next frame: frame number r_rec.frames + 1 of the tape,
\* which the device produces now if it has not yet.
RecRead ==
    /\ r_rec.why = ""
    /\ running
    /\ LET k == r_rec.frames + 1
       IN  \E rms \in Levels :
             /\ k <= Len(r_tape) => rms = r_tape[k]
             /\ r_tape' = IF k <= Len(r_tape) THEN r_tape ELSE Append(r_tape, rms)
             /\ r_rec' = RecordIter(r_rec, rms)
    /\ UNCHANGED <<running, r_call, r_pass, r_first>>
    /\ UNCHANGED <<pipeVars, wsVars, svcVars, auxVars>>

RecBreak ==
    /\ r_rec.why = ""
    /\ ~running
    /\ r_rec' = RecordBreak(r_rec)
    /\ UNCHANGED <<running, r_call, r_tape, r_pass, r_first>>
    /\ UNCHANGED <<pipeVars, wsVars, svcVars, auxVars>>

\* Pass 1 has returned: keep what it returned and run the call again on the
\* same frames.
RecAgain ==
    /\ r_rec.why # ""
    /\ r_pass = 1
    /\ r_first' = r_rec
    /\ r_pass' = 2
    /\ r_rec' = NewPass(r_call)
    /\ UNCHANGED <<running, r_call, r_tape>>
    /\ UNCHANGED <<pipeVars, wsVars, svcVars, auxVars>>

NextRec == RecRead \/ RecBreak \/ RecAgain \/ StopPipeline

SpecRec == InitRec /\ [][NextRec]_vars

\* ------------------------------------------------------------ C8, C9, C10
Returned == r_rec.why # ""
Heard == SubSeq(r_tape, 1, r_rec.frames)
AllBelow(s) == \A k \in 1..Len(s) : ~(s[k] > rms_threshold)
AllAbove(s) == \A k \in 1..Len(s) : s[k] > rms_threshold
\* s is n frames above the threshold followed by frames not above it
SpeechThenSilence(s, n) ==
    /\ n >= 1 /\ n < Len(s)
    /\ \A k \in 1..Len(s) : (s[k] > rms_threshold) <=> (k <= n)
Min(a, b) == IF a < b THEN a ELSE b

C10_SpeechRunsToMaxDuration ==
    /\ (AllAbove(Heard) /\ r_rec.why # "stop" /\ r_rec.frames < r_rec.max_total_chunks)
         => ~Returned
    /\ (Returned /\ AllAbove(Heard) /\ r_rec.why # "stop")
         => (r_rec.why = "max" /\ r_rec.frames = r_rec.max_total_chunks)

C10_Witness ==
    /\ Returned /\ AllAbove(Heard) /\ r_rec.why = "max"
    /\ r_rec.frames = ChunksIn(FrameLength, MaxDurationTenths)
    /\ r_rec.frames > 0
\* -------------------------------------------------------- the event hub
\* ConnectionManager with its clients and one publishing thread.
NextWs ==
    \/ SetLoop
    \/ BroadcastSync
    \/ LoopRun
    \/ \E c \in Conns : Connect(c)
    \/ \E c \in Conns : PeerStalls(c)
    \/ \E c \in Conns : PeerDrains(c)
    \/ \E c \in Conns : PeerCloses(c)
    \/ \E c \in Conns : HandlerDisconnect(c)

SpecWs == Init /\ [][NextWs]_vars

\* ----------------------------------------------------------- C11 .. C14
Range(q) == {q[i] : i \in 1..Len(q)}
Occurrences(q, x) == Cardinality({i \in 1..Len(q) : q[i] = x})
\* c received e1 and later e2
Before(c, e1, e2) ==
    \E i, j \in 1..Len(inbox[c]) : i < j /\ inbox[c][i] = e1 /\ inbox[c][j] = e2
\* c attached before e was published and has been connected ever since
ConnectedSince(c, e) == conn[c] \in {"open", "slow"} /\ attached[c] < e
TaskEnded(e) == task[e].st \in {"done", "crashed"}

\* C11: when E1 is given to broadcast_sync before E2, a subscriber that is
\* connected throughout and has received E2 received E1 before it.
C11_DeliveryInPublishOrder ==
    \A c \in Conns : \A e1, e2 \in Events :
      (e1 < e2 /\ ConnectedSince(c, e1) /\ e2 \in Range(inbox[c]))
      => Before(c, e1, e2)

\* C12: a subscriber whose send does not complete holds up nobody else: while
\* a broadcast is suspended in a send to one websocket, every other subscriber
\* that is connected and reading already has that event.
C12_SlowSubscriberDelaysNobody ==
    \A e \in Events : \A c \in Conns :
      (task[e].st = "suspended" /\ task[e].at # c
         /\ conn[c] = "open" /\ attached[c] < e)
      => e \in Range(inbox[c])

\* C13: when a send of a broadcast failed, then once that broadcast has ended
\* the failed websocket is not in the active set and every other subscriber
\* connected throughout was sent the event.
C13_FailedSubscriberPruned ==
    \A e \in Events :
      (TaskEnded(e) /\ task[e].disconnected # {})
      => /\ task[e].disconnected \cap active = {}
         /\ \A c \in Conns \ task[e].disconnected :
              ConnectedSince(c, e) => e \in Range(inbox[c] \o wire[c])

C33_BroadcastSurvivesChurn ==
    \A e \in Events : \A c \in Conns :
      (TaskEnded(e) /\ ConnectedSince(c, e)) => e \in Range(inbox[c] \o wire[c])

\* --------------------------------------------------------- speak() alone
\* Callers of speak() with texts that are not blank, and the playbacks they
\* start, followed through _fn.
NextTts ==
    \/ SpeakCall
    \/ \E u \in Playbacks : TtsAcquire(u)
    \/ \E u \in Playbacks : SynthPrimary(u)
    \/ \E u \in Playbacks : SynthFallback(u)
    \/ \E u \in Playbacks : TtsRelease(u)

SpecTts == Init /\ [][NextTts]_vars

\* ------------------------------------------------------------------ C26
\* C26: speak never raises to its caller. When the primary synthesis fails the
\* fallback is entered, and a call of the primary engine ends without audio
\* only out of a failed fallback; a call that has come back to a blocking
\* caller has left the with-block, and the lock is held only by a playback that
\* is inside it, so a later speak can take it.
C26_SpeakNeverRaises ==
    /\ [](\A u \in Playbacks :
            /\ calls[u].out # "raised"
            /\ (calls[u].blocking /\ calls[u].out = "returned") =>
                  (calls[u].stage = "released" /\ tts_lock # u)
            /\ tts_lock = u =>
                  (units[u].st = "playing" /\ calls[u].stage # "released"))
    /\ [][\A u \in Playbacks :
            /\ (calls[u].fn = "elevenlabs" /\ calls[u].stage = ""
                   /\ calls'[u].stage # "") =>
                  \/ calls'[u].stage = "done" /\ calls'[u].audio = "elevenlabs"
                  \/ calls'[u].stage = "fallback"
            /\ (calls[u].fn = "elevenlabs" /\ calls[u].stage # "done"
                   /\ calls'[u].stage = "done" /\ calls'[u].audio = "none") =>
                  calls[u].stage = "fallback"
            /\ (calls[u].stage = "done" /\ calls'[u].stage = "released") =>
                  tts_lock' = None]_vars

\* both engines have failed for a blocking call, which has returned, and
\* another playback holds the lock
C26_Witness ==
    \E u, v \in Playbacks :
      /\ u # v
      /\ calls[u].blocking /\ calls[u].fn = "elevenlabs"
      /\ calls[u].stage = "released" /\ calls[u].audio = "none"
      /\ calls[u].out = "returned"
      /\ tts_lock = v /\ units[v].st = "playing"

\* ------------------------------------------------- the reminder engine alone
\* add and delete called by the REST endpoints and the pipeline, and the
\* scheduler firing what is due.
NextRem ==
    \/ Add
    \/ \E rid \in Rids : FireDue(rid)
    \/ \E rid \in Rids : FireAnnounce(rid)
    \/ \E rid \in Rids : FireDone(rid)
    \/ \E rid \in Rids : DeleteCall(rid)
    \/ DeleteFinish

SpecRem == Init /\ [][NextRem]_vars

\* ------------------------------------------------------------------ C27
\* C27: delete(id) goes on past its check exactly when the id is in the
\* reminder set, then returns true and the id is not in list_reminders; for an
\* id that is not in the set it returns false and the reminder set, the
\* scheduled jobs and the persisted file are what they were.
C27_DeleteRemovesOrLeaves ==
    [][/\ (del.st = "idle" /\ del'.st = "found") => reminders[del'.rid] # 0
       /\ (del.st = "idle" /\ del' # del /\ del'.st = "idle") =>
             /\ del'.ret = "false"
             /\ reminders[del'.rid] = 0
             /\ reminders' = reminders /\ jobs' = jobs /\ stored' = stored
       /\ (del.st = "found" /\ del'.st = "idle") =>
             /\ del'.ret = "true"
             /\ \A i \in 1..Len(list_reminders') : list_reminders'[i] # del.rid
             /\ reminders'[del.rid] = 0]_vars

\* a delete has returned true while another reminder is still listed
C27_Witness ==
    /\ del.st = "idle" /\ del.ret = "true"
    /\ reminders[del.rid] = 0
    /\ Listed # {}


\* ------------------------------------------------------------------ C39
\* C39: under any interleaving of add, delete and the scheduler's firing a
\* reminder is announced at most once, a reminder whose delete has returned
\* true is not announced afterwards, and a reminder whose _fire has run is not
\* in list_reminders.
C39_FiresOnceAndNotAfterDelete ==
    [][\A rid \in Rids :
         /\ fired'[rid] <= 1
         /\ (del.st = "idle" /\ del.ret = "true" /\ del.rid = rid)
              => fired'[rid] = fired[rid]
         /\ (fired'[rid] > 0 /\ rid \notin firing')
              => \A i \in 1..Len(list_reminders') : list_reminders'[i] # rid]_vars

\* --------------------------------------------------- the chat client alone
NextChat ==
    \/ \E k \in Chats : ChatCall(k)
    \/ \E k \in Chats : ModelReturns(k)
    \/ \E k \in Chats : AppendUser(k)
    \/ \E k \in Chats : AppendModel(k)

SpecChat == Init /\ [][NextChat]_vars

\* ------------------------------------------------------------------ C28
\* How many entries of the given role call k has in the log
Entries(role, k) == Cardinality({i \in 1..Len(history) : history[i] = <<role, k>>})

\* C28: a chat call that has returned has exactly one user entry and one model
\* entry in the conversation history, the user entry first; a chat_raw call,
\* and a chat call whose model call failed, have none; and the history only
\* ever grows by one entry at its end.
C28_ChatAppendsOnePair ==
    /\ [](\A k \in Chats :
            /\ (chat[k].kind = "chat" /\ chat[k].st = "done") =>
                  /\ Entries("user", k) = 1 /\ Entries("model", k) = 1
                  /\ \E i, j \in 1..Len(history) :
                        i < j /\ history[i] = <<"user", k>> /\ history[j] = <<"model", k>>
            /\ (chat[k].kind = "raw" \/ chat[k].st = "failed") =>
                  (Entries("user", k) = 0 /\ Entries("model", k) = 0))
    /\ [][history' # history =>
            \E e \in {"user", "model"} \X Chats : history' = Append(history, e)]_vars

\* a chat has returned after a chat_raw and a failed chat
C28_Witness ==
    \E a, b, c \in Chats :
      /\ chat[a].kind = "chat" /\ chat[a].st = "done"
      /\ chat[b].kind = "raw" /\ chat[b].st = "done"
      /\ chat[c].kind = "chat" /\ chat[c].st = "failed"
      /\ Len(history) = 2

\* -------------------------------------------------- the tutor engine alone
\* start, answer and end called by the REST endpoints and the pipeline, and the
\* threads of the sessions.
NextTutor ==
    \/ Start
    \/ End
    \/ \E w \in Workers : Extract(w)
    \/ \E w \in Workers : AskNext(w)
    \/ \E w \in Workers : Generate(w)
    \/ \E w \in Workers : SetQuestion(w)
    \/ \E w \in Workers : Answer(w)
    \/ \E w \in Workers : Evaluate(w)
    \/ \E w \in Workers : Score(w)
    \/ \E w \in Workers : Advance(w)
    \/ \E w \in Workers : Branch(w)

SpecTutor == Init /\ [][NextTutor]_vars

\* This step publishes and speaks a question of session s (259-269)
Asks(s) == \E w \in Workers : wk[w].pc = "set" /\ wk[w].s = s /\ wk'[w].pc # "set"

\* A session that is neither IDLE nor FINISHED
Running(s) == sessions[s].state \notin {"idle", "finished"}

\* C29: at most one tutor session is running at a time, and a session that
\* start() has replaced asks no further question and changes no state: once
\* another session is the current one, its state stays what it is and it
\* publishes no tutor_question.
C29_ReplacedSessionIsOver ==
    [][/\ Cardinality({s \in Sessions : Running(s)}') <= 1
       /\ \A s \in Sessions :
            (session # 0 /\ s < session) =>
                /\ sessions'[s].state = sessions[s].state
                /\ ~Asks(s)]_vars

\* The documented machine, with FINISHED reachable from every state, and with
\* the pass through ACTIVE that lies between EVALUATING and the next ASKING.
Documented(from, to) ==
    \/ from = "idle" /\ to = "active"
    \/ from = "active" /\ to = "asking"
    \/ from = "asking" /\ to = "awaiting_answer"
    \/ from = "awaiting_answer" /\ to = "evaluating"
    \/ from = "evaluating" /\ to \in {"active", "asking"}
    \/ to = "finished"

\* C30: the state of a tutor session changes only along the documented
\* machine: IDLE to ACTIVE, ACTIVE to ASKING to AWAITING_ANSWER to EVALUATING
\* and back to asking, and out of the loop only by finishing.
C30_OnlyDocumentedTransitions ==
    [][\A s \in Sessions :
         sessions'[s].state # sessions[s].state =>
             Documented(sessions[s].state, sessions'[s].state)]_vars



\* ------------------------------------------------------------------ C36
\* C36: once a session has reached FINISHED it stays FINISHED under any
\* interleaving of answer, end and start: it asks no further question, its
\* score no longer changes, and its summary has been saved exactly once.
C36_FinishedIsFinal ==
    [][\A s \in Sessions :
         /\ sessions'[s].state = "finished" => sessions'[s].saved = 1
         /\ sessions[s].state = "finished" =>
              /\ sessions'[s].state = "finished"
              /\ ~Asks(s)
              /\ sessions'[s].correct = sessions[s].correct
              /\ sessions'[s].incorrect = sessions[s].incorrect]_vars

\* ------------------------------------------------------------------ C35
\* One session with its thread and one thread that answers: start() is called
\* once and end() never.
Solo == {1, MaxSessions + 1}

TutorStep(w) ==
    \/ Extract(w)
    \/ AskNext(w)
    \/ Generate(w)
    \/ SetQuestion(w)
    \/ Answer(w)
    \/ Evaluate(w)
    \/ Score(w)
    \/ Advance(w)
    \/ Branch(w)

NextSolo ==
    \/ made = 0 /\ Start
    \/ \E w \in Solo : Extract(w)
    \/ \E w \in Solo : AskNext(w)
    \/ \E w \in Solo : Generate(w)
    \/ \E w \in Solo : SetQuestion(w)
    \/ \E w \in Solo : Answer(w)
    \/ \E w \in Solo : Evaluate(w)
    \/ \E w \in Solo : Score(w)
    \/ \E w \in Solo : Advance(w)
    \/ \E w \in Solo : Branch(w)

\* Every call returns and every asked question gets an answer: a thread that
\* can take a step takes one, and answer() is called while a question waits.
SpecSolo == Init /\ [][NextSolo]_vars /\ \A w \in Solo : WF_wk(TutorStep(w))

\* C35: a session in which every asked question gets answered eventually
\* reaches FINISHED and saves its summary, also when answers were incorrect
\* and weak topics are re-tested. (A session whose thread was ended by an
\* exception of the question generator is left aside.)
C35_AnsweredSessionFinishes ==
    \A s \in Sessions :
        (sessions[s].state = "active") ~>
            \/ sessions[s].state = "finished" /\ sessions[s].saved >= 1
            \/ \E w \in Workers : wk[w].ret = "raised"


\* ------------------------------------------------------------ C37, C38
\* One session and the threads that answer: start() is called once and end()
\* never.
NextAnswers ==
    \/ made = 0 /\ Start
    \/ \E w \in Workers : Extract(w)
    \/ \E w \in Workers : AskNext(w)
    \/ \E w \in Workers : Generate(w)
    \/ \E w \in Workers : SetQuestion(w)
    \/ \E w \in Workers : Answer(w)
    \/ \E w \in Workers : Evaluate(w)
    \/ \E w \in Workers : Score(w)
    \/ \E w \in Workers : Advance(w)
    \/ \E w \in Workers : Branch(w)

SpecAnswers == Init /\ [][NextAnswers]_vars

\* Thread w is inside evaluate_answer and the next question is not asked yet
Evaluating(w) == wk[w].pc \in {"evaluating", "score", "advance", "branch", "ask", "gen", "set"}
\* This step is a call of answer() by thread w
Answers(w) == w \in Answerers /\ wk[w].pc = "idle" /\ wk'[w] # wk[w]
\* What is counted of the answers of session s
Scored(s) == sessions[s].correct + sessions[s].incorrect

\* C37: of two answers submitted concurrently for the same question exactly
\* one is evaluated and scored, correct + incorrect growing by one and the log
\* by one entry; the other returns "No active question.".
C37_OneAnswerPerQuestion ==
    [][\A w \in Answerers :
         /\ (Answers(w) /\ \E v \in Answerers \ {w} : Evaluating(v))
              => /\ wk'[w].pc = "idle"
                 /\ wk'[w].ret = "no_active"
                 /\ sessions' = sessions
         /\ (wk[w].pc = "score" /\ wk'[w].pc # "score")
              => /\ \A v \in Answerers \ {w} : ~Evaluating(v)
                 /\ Scored(wk[w].s) < MaxQuestions
                      => Scored(wk[w].s)' = Scored(wk[w].s) + 1
                 /\ sessions[wk[w].s].exchange_log < MaxQuestions
                      => sessions'[wk[w].s].exchange_log
                           = sessions[wk[w].s].exchange_log + 1]_vars

\* One answer is being scored and the other call has returned "No active
\* question."
C37_Witness ==
    \E v, w \in Answerers :
        /\ v # w
        /\ wk[v].pc = "advance"
        /\ Scored(wk[v].s) = 1
        /\ wk[w].pc = "idle" /\ wk[w].ret = "no_active"

\* C38: evaluate_answer called while the session is not in AWAITING_ANSWER
\* returns "No active question." and changes nothing of the session: state,
\* score, difficulty, question index and log stay, and no thread goes on to
\* publish feedback or a question.
C38_NoActiveQuestionChangesNothing ==
    [][\A w \in Answerers :
         (Answers(w) /\ session # 0 /\ sessions[session].state # "awaiting_answer")
         => /\ wk'[w].pc = "idle"
            /\ wk'[w].ret = "no_active"
            /\ sessions' = sessions]_vars

\* An answer was turned away by a session that had finished with a score
C38_Witness ==
    \E w \in Answerers :
        /\ wk[w].pc = "idle" /\ wk[w].ret = "no_active"
        /\ session # 0
        /\ sessions[session].state = "finished"
        /\ sessions[session].exchange_log >= 1
        /\ \A v \in Workers : wk[v].pc = "idle"

\* --------------------------------------------- the capture stream alone
NextDev ==
    \/ Capture
    \/ WakeFrame
    \/ FlushQuery
    \/ FlushRead
    \/ PassRead
    \/ PassReturn
    \/ TurnGoesOn

SpecDev == Init /\ [][NextDev]_vars

\* ------------------------------------------------------------------ C31
\* No frame of the utterance was captured before the pass was called
FreshUtterance == \A i \in 1..Len(d_frames) : d_frames[i] > d_mark
\* No buffered frame was captured before line 526 was reached
FreshBuffer == \A i \in 1..Len(d_buf) : d_buf[i] > d_post

MicStep(m) == MicAccept(m) \/ MicReceive(m) \/ MicTranscribe(m) \/ MicRoute(m)

NextMic ==
    \/ \E m \in Mics : MicAccept(m)
    \/ \E m \in Mics : MicReceive(m)
    \/ \E m \in Mics : MicTranscribe(m)
    \/ \E m \in Mics : MicRoute(m)

\* Clients go on sending until END or until the connection fails, and every
\* call of the handler and of its thread returns.
SpecMic == Init /\ [][NextMic]_vars /\ \A m \in Mics : WF_mic(MicStep(m))

\* ------------------------------------------------------------------ C34
\* C34: every /ws/mic session that emitted listening eventually emits idle,
\* also when END arrives with no audio, when the transcript is empty, when
\* routing raises and when the connection fails.
C34_MicSessionEndsInIdle ==
    \A m \in Mics : (mic[m].phase = "listening") ~> (mic[m].phase = "idle")
====
